---- MODULE Spec2Model ----
(***************************************************************************)
(* Agent mesh of platform-setup_repo: the sink registry's file catalogue,  *)
(* the data-access adapters, the query planner's request state machine and *)
(* the JSON-RPC dispatchers of the agents.                                 *)
(*                                                                         *)
(* The specifications share the variables:                                 *)
(*   SinkSpec        request threads of sink_registry_agent/mcp_tools.py   *)
(*   AdapterSpec     the data-access adapters driven directly              *)
(*   PlannerSpec     plan_and_execute_query with its adapters              *)
(*   PlannerFairSpec one planning request under weak fairness              *)
(*   DispatchSpec    the /a2a handlers of the agents' main.py              *)
(*   RegistrySpec    the agent registry                                    *)
(*   ChatSpec        overlapping process_message calls of the chat agent   *)
(*   ChatSeqSpec     process_message calls made one after the other        *)
(*   RouterSpec      manual_pull_insert of the log router                  *)
(*   DbSpec          execute_query and create_record of the db service     *)
(*   AuthSpec        login and verify_token of the auth agent              *)
(***************************************************************************)
EXTENDS Integers, Sequences, FiniteSets, TLC

VARIABLES
    \* ---- sink registry (sink_registry_agent/mcp_tools.py)
    sinkFile,      \* contents of sinks.json as _load_sinks reads it: sink_id -> descriptor
    file_lock,     \* holder of threading.Lock file_lock: a thread, or NoThread
    tpc,           \* per request thread: position inside the tool function
    tcall,         \* per request thread: the call it runs
    tsinks,        \* per request thread: the local dict `sinks`
    tret,          \* per request thread: the value the call returned
    tconc,         \* per request thread: another call was in progress during this one
    ioFaulted      \* an IOError / JSONDecodeError has happened on sinks.json

sinkVars == <<sinkFile, file_lock, tpc, tcall, tsinks, tret, tconc, ioFaulted>>

\* ------------------------------------------------------------------ bounds
NumThreads == 2
NumSinkIds == 2

\* ------------------------------------------------------------------ values
Threads == 1..NumThreads
NoThread == 0

AllSinkIds == <<"s1", "s2", "s3", "s4">>
SinkIds == {AllSinkIds[i] : i \in 1..NumSinkIds}

\* What a registered descriptor carries that the planner reads: sink_type and
\* connection_ref.  connection_ref values: the path string of an existing
\* file, the path string of a missing file, or one of the dicts of Configs.
\* sink_type "" stands for an absent or empty sink_type.
SinkTypes == {"sqlite", "bigquery", "s3", ""}

\* Configuration dicts: {"database_file_path": existing file},
\* {"database_file_path": missing file}, {"project_id", "dataset_id"},
\* {"project_id"}, {}.
Configs == {"sqlite_ok", "sqlite_missing", "bq_ok", "bq_nodataset", "empty"}
ConnRefs == {"path_ok", "path_missing"} \cup Configs
SinkDescs == [sink_type : SinkTypes, connection_ref : ConnRefs]

\* The descriptors the sink-registry threads register (a small subset).
ThreadDescs ==
    { [sink_type |-> "sqlite", connection_ref |-> "path_ok"],
      [sink_type |-> "bigquery", connection_ref |-> "bq_ok"] }

EmptyCatalogue == [s \in {} |-> [sink_type |-> "sqlite", connection_ref |-> "path_ok"]]

Catalogues(descs) ==
    UNION { [D -> descs] : D \in SUBSET SinkIds }

\* sinks[sink_id] = {...}
DictPut(sinks, sink_id, desc) ==
    [s \in DOMAIN sinks \cup {sink_id} |-> IF s = sink_id THEN desc ELSE sinks[s]]

\* del sinks[sink_id]
DictDel(sinks, sink_id) ==
    [s \in DOMAIN sinks \ {sink_id} |-> sinks[s]]

\* ---------------------------------------------------------- sink registry
\* The tool functions are run by request threads; file_lock is what the
\* module provides "for file access safety in concurrent requests".

SinkOps == {"register_sink", "delete_sink", "get_sink_details", "list_sinks"}
NoCall == [op |-> "none", sink_id |-> "s1", desc |-> [sink_type |-> "sqlite", connection_ref |-> "path_ok"]]
SinkCalls ==
    [op : SinkOps, sink_id : SinkIds, desc : ThreadDescs]

InCall(t) == tpc[t] \notin {"idle", "done"}

\* A request thread enters one of the four tool functions.
SinkCall(t) ==
    /\ tpc[t] = "idle"
    /\ \E c \in SinkCalls :
          /\ c.op \in {"get_sink_details", "list_sinks", "delete_sink"}
                => c.desc = NoCall.desc
          /\ c.op = "list_sinks" => c.sink_id = NoCall.sink_id
          /\ tcall' = [tcall EXCEPT ![t] = c]
    /\ tpc' = [tpc EXCEPT ![t] = "load"]
    /\ tconc' = [u \in Threads |->
                    IF u = t THEN \E v \in Threads \ {t} : InCall(v)
                    ELSE IF InCall(u) THEN TRUE ELSE tconc[u]]
    /\ tret' = [tret EXCEPT ![t] = "none"]
    /\ UNCHANGED <<sinkFile, file_lock, tsinks, ioFaulted>>

\* _load_sinks: `with file_lock:` entered.
LoadAcquire(t) ==
    /\ tpc[t] = "load"
    /\ file_lock = NoThread
    /\ file_lock' = t
    /\ tpc' = [tpc EXCEPT ![t] = "loading"]
    /\ UNCHANGED <<sinkFile, tcall, tsinks, tret, tconc, ioFaulted>>

\* _load_sinks: json.load(f) returned, or the error branch returned {}; the
\* lock is released on leaving the with block.
LoadRead(t) ==
    /\ tpc[t] = "loading"
    /\ file_lock = t
    /\ \/ /\ tsinks' = [tsinks EXCEPT ![t] = sinkFile]
          /\ UNCHANGED ioFaulted
       \/ /\ tsinks' = [tsinks EXCEPT ![t] = EmptyCatalogue]
          /\ ioFaulted' = TRUE
    /\ file_lock' = NoThread
    /\ tpc' = [tpc EXCEPT ![t] = "loaded"]
    /\ UNCHANGED <<sinkFile, tcall, tret, tconc>>

\* The body of the tool function between _load_sinks and _save_sinks.
SinkMutate(t) ==
    /\ tpc[t] = "loaded"
    /\ LET c == tcall[t] IN
       CASE c.op = "register_sink" ->
              /\ tsinks' = [tsinks EXCEPT ![t] = DictPut(tsinks[t], c.sink_id, c.desc)]
              /\ tpc' = [tpc EXCEPT ![t] = "save"]
              /\ UNCHANGED tret
         [] c.op = "delete_sink" ->
              IF c.sink_id \in DOMAIN tsinks[t]
              THEN /\ tsinks' = [tsinks EXCEPT ![t] = DictDel(tsinks[t], c.sink_id)]
                   /\ tpc' = [tpc EXCEPT ![t] = "save"]
                   /\ UNCHANGED tret
              ELSE /\ tret' = [tret EXCEPT ![t] = "error_not_found"]
                   /\ tpc' = [tpc EXCEPT ![t] = "done"]
                   /\ UNCHANGED tsinks
         [] c.op = "get_sink_details" ->
              /\ tret' = [tret EXCEPT ![t] =
                            IF c.sink_id \in DOMAIN tsinks[t] THEN "found" ELSE "None"]
              /\ tpc' = [tpc EXCEPT ![t] = "done"]
              /\ UNCHANGED tsinks
         [] OTHER ->
              /\ tret' = [tret EXCEPT ![t] = "listed"]
              /\ tpc' = [tpc EXCEPT ![t] = "done"]
              /\ UNCHANGED tsinks
    /\ UNCHANGED <<sinkFile, file_lock, tcall, tconc, ioFaulted>>

\* _save_sinks: `with file_lock:` entered.
SaveAcquire(t) ==
    /\ tpc[t] = "save"
    /\ file_lock = NoThread
    /\ file_lock' = t
    /\ tpc' = [tpc EXCEPT ![t] = "saving"]
    /\ UNCHANGED <<sinkFile, tcall, tsinks, tret, tconc, ioFaulted>>

\* What _save_sinks leaves in sinks.json when json.dump completes.
SavedFile(sinks) == sinks

\* _save_sinks: the file is rewritten whole and True returned; or IOError:
\* False is returned and the file is as before (open failed) or truncated
\* (the write failed), which _load_sinks reads as {}.
SaveWrite(t) ==
    /\ tpc[t] = "saving"
    /\ file_lock = t
    /\ \/ /\ sinkFile' = SavedFile(tsinks[t])
          /\ tret' = [tret EXCEPT ![t] =
                        IF tcall[t].op = "register_sink" THEN "registered" ELSE "deleted"]
          /\ UNCHANGED ioFaulted
       \/ /\ sinkFile' \in {sinkFile, EmptyCatalogue}
          /\ tret' = [tret EXCEPT ![t] = "error_save"]
          /\ ioFaulted' = TRUE
    /\ file_lock' = NoThread
    /\ tpc' = [tpc EXCEPT ![t] = "done"]
    /\ UNCHANGED <<tcall, tsinks, tconc>>

\* The dispatcher has sent the response; the thread serves the next request.
SinkReturn(t) ==
    /\ tpc[t] = "done"
    /\ tpc' = [tpc EXCEPT ![t] = "idle"]
    /\ tcall' = [tcall EXCEPT ![t] = NoCall]
    /\ tsinks' = [tsinks EXCEPT ![t] = EmptyCatalogue]
    /\ tret' = [tret EXCEPT ![t] = "none"]
    /\ tconc' = [tconc EXCEPT ![t] = FALSE]
    /\ UNCHANGED <<sinkFile, file_lock, ioFaulted>>

\* Module import: `if not os.path.exists(SINK_FILE_PATH): _save_sinks({})`.
SinkInit ==
    /\ sinkFile = EmptyCatalogue
    /\ file_lock = NoThread
    /\ tpc = [t \in Threads |-> "idle"]
    /\ tcall = [t \in Threads |-> NoCall]
    /\ tsinks = [t \in Threads |-> EmptyCatalogue]
    /\ tret = [t \in Threads |-> "none"]
    /\ tconc = [t \in Threads |-> FALSE]
    /\ ioFaulted = FALSE


\* ================================================================ strings
\* Python strings are sequences of lexical pieces; white space is explicit.
\* Each piece stands for its characters: the tables below say what upper(),
\* startswith() and `in` make of them.

None == << >>
Some(v) == <<v>>

WhiteSpace == {" ", "\n"}

\* str.upper() on one piece
UpperPiece(p) ==
    CASE p = "select" -> "SELECT"
      [] p = "drop" -> "DROP"
      [] p = "insert" -> "INSERT"
      [] p = "limit" -> "LIMIT"
      [] p = "count(" -> "COUNT("
      [] p = "from" -> "FROM"
      [] p = "rate_limit" -> "RATE_LIMIT"
      [] OTHER -> p

\* str.upper()
Upper(q) == [i \in 1..Len(q) |-> UpperPiece(q[i])]

RECURSIVE LStrip(_)
\* str.lstrip()
LStrip(q) == IF q # << >> /\ Head(q) \in WhiteSpace THEN LStrip(Tail(q)) ELSE q

RECURSIVE RStrip(_)
\* str.rstrip()
RStrip(q) ==
    IF q # << >> /\ q[Len(q)] \in WhiteSpace THEN RStrip(SubSeq(q, 1, Len(q) - 1)) ELSE q

\* str.strip()
Strip(q) == RStrip(LStrip(q))

RECURSIVE RStripChar(_, _)
\* str.rstrip(c)
RStripChar(q, c) ==
    IF q # << >> /\ q[Len(q)] = c THEN RStripChar(SubSeq(q, 1, Len(q) - 1), c) ELSE q

\* Upper-case pieces whose characters begin with SELECT.
SelectPrefixed == {"SELECT", "SELECTED"}

\* s.startswith("SELECT"), s already upper-cased
StartsWithSELECT(q) == q # << >> /\ Head(q) \in SelectPrefixed

\* s.startswith(p) / s.endswith(p) for a piece p that is a piece of its own
StartsWith(q, p) == q # << >> /\ Head(q) = p
EndsWith(q, p) == q # << >> /\ q[Len(q)] = p

\* Upper-case pieces whose characters contain the given word.
PiecesContaining(w) ==
    CASE w = "LIMIT" -> {"LIMIT", "RATE_LIMIT"}
      [] w = "COUNT(" -> {"COUNT("}
      [] OTHER -> {w}

\* `w in s`, s already upper-cased
Contains(q, w) == \E i \in 1..Len(q) : q[i] \in PiecesContaining(w)

RECURSIVE SplitOn(_, _)
\* str.split(sep)
SplitOn(q, sep) ==
    IF \A i \in 1..Len(q) : q[i] # sep THEN <<q>>
    ELSE LET k == CHOOSE i \in 1..Len(q) : q[i] = sep /\ \A j \in 1..(i - 1) : q[j] # sep
         IN <<SubSeq(q, 1, k - 1)>> \o SplitOn(SubSeq(q, k + 1, Len(q)), sep)

\* JSON documents are single pieces.
JsonPieces == {"J_QP", "J_QDROP", "J_P", "J_LIST"}

\* The markdown fences: three backquotes followed by json, by sql, by nothing.
Fences == {"[fence-json]", "[fence-sql]", "[fence]"}

\* ================================================================ queries
Sp == " "
Q_Select      == <<"SELECT", Sp, "*", Sp, "FROM", Sp, "t">>
Q_SelectLower == <<Sp, "select", Sp, "*", Sp, "from", Sp, "t", ";">>
Q_SelectLimit == <<"SELECT", Sp, "*", Sp, "FROM", Sp, "t", Sp, "LIMIT", Sp, "5">>
Q_Count       == <<"SELECT", Sp, "COUNT(", "*", ")", Sp, "FROM", Sp, "t">>
Q_RateLimit   == <<"SELECT", Sp, "rate_limit", Sp, "FROM", Sp, "t">>
Q_Drop        == <<"DROP", Sp, "TABLE", Sp, "t">>
Q_Insert      == <<"insert", Sp, "INTO", Sp, "t", Sp, "VALUES", Sp, "(1)">>
Q_Delete      == <<"DELETE", Sp, "FROM", Sp, "t">>
Q_Update      == <<"UPDATE", Sp, "t", Sp, "SET", Sp, "a=1">>
Q_SelectDrop  == <<"SELECT", Sp, "1", ";", Sp, "DROP", Sp, "TABLE", Sp, "t">>
Q_Selected    == <<"SELECTED", Sp, "x">>
Q_Empty       == << >>

\* The query strings the adapters are exercised with.
TestQueries ==
    { Q_Select, Q_SelectLower, Q_SelectLimit, Q_Count, Q_RateLimit, Q_Drop, Q_Insert,
      Q_Delete, Q_Update, Q_SelectDrop, Q_Selected, Q_Empty }

MutatingVerbs == {"INSERT", "UPDATE", "DELETE", "DROP", "CREATE", "ALTER", "TRUNCATE"}

\* The statement is a single read-only SELECT: its first word is SELECT and
\* no mutating verb stands in it as a word of its own.
IsReadOnlySelect(q) ==
    LET u == Upper(Strip(q)) IN
    /\ u # << >>
    /\ Head(u) = "SELECT"
    /\ \A i \in 1..Len(u) : u[i] \notin MutatingVerbs

\* common_interfaces.QueryObject
QueryObject(q, params) == [query_string |-> q, parameters |-> params, query_type |-> "select"]

\* common_interfaces.QueryResult; Optional fields are None or Some(value)
QueryResult(success, columns, rows, row_count, error_message, metadata) ==
    [success |-> success, columns |-> columns, rows |-> rows, row_count |-> row_count,
     error_message |-> error_message, metadata |-> metadata]

\* A failure result that loses its message.
FailureResultNoMessage(msg) == QueryResult(FALSE, None, None, None, None, None)

FailureResult(msg) == QueryResult(FALSE, None, None, None, Some(msg), None)

\* ================================================================ adapters
VARIABLES
    inst,          \* the adapter instance constructed last
    backendLog,    \* query strings submitted to the backend (cursor.execute / client.query)
    aout           \* outcome of the last adapter method call

adapterVars == <<inst, backendLog, aout>>

\* Exceptions of common_interfaces.py
DataAccessErrors ==
    {"DataAccessError", "ConnectionError", "ConfigurationError", "QueryExecutionError",
     "SchemaError"}

AdapterKinds == {"sqlite", "bigquery"}

\* __init__ of SQLiteAdapter / BigQueryAdapter: conn / client is None.
\* `conn` is self.conn (sqlite) or self.client (bigquery) being set;
\* `dataset` is default_dataset_id being set.
NewAdapter(kind) ==
    [made |-> TRUE, kind |-> kind, conn |-> FALSE, dataset |-> FALSE,
     connects |-> 0, disconnects |-> 0]

NoInst ==
    [made |-> FALSE, kind |-> "sqlite", conn |-> FALSE, dataset |-> FALSE,
     connects |-> 0, disconnects |-> 0]

\* What the environment makes of the connection attempt.
ConnectEnv == {"up", "down"}

Ret(a, exc) == [inst |-> a, exc |-> exc]

\* SQLiteAdapter.connect; config is a dict of Configs or a path string
SQLiteConnect(a, config, env) ==
    LET a1 == [a EXCEPT !.connects = 1] IN
    CASE config \notin Configs -> Ret(a1, "AttributeError")
      [] config \notin {"sqlite_ok", "sqlite_missing"} -> Ret(a1, "ConfigurationError")
      [] config = "sqlite_missing" -> Ret(a1, "ConnectionError")
      [] env = "down" -> Ret([a1 EXCEPT !.conn = FALSE], "ConnectionError")
      [] OTHER -> Ret([a1 EXCEPT !.conn = TRUE], "none")

\* BigQueryAdapter.connect; config is a dict of Configs or a path string
BigQueryConnect(a, config, env) ==
    LET a1 == [a EXCEPT !.connects = 1] IN
    CASE config \notin Configs -> Ret(a1, "AttributeError")
      [] config \notin {"bq_ok", "bq_nodataset"} -> Ret(a1, "ConfigurationError")
      [] env = "down" ->
            Ret([a1 EXCEPT !.conn = FALSE, !.dataset = (config = "bq_ok")], "ConnectionError")
      [] OTHER ->
            Ret([a1 EXCEPT !.conn = TRUE, !.dataset = (config = "bq_ok")], "none")

AdapterConnect(a, config, env) ==
    IF a.kind = "sqlite" THEN SQLiteConnect(a, config, env)
    ELSE BigQueryConnect(a, config, env)

\* A disconnect that leaves conn / client set.
DisconnectKeepsConnection(a) ==
    [a EXCEPT !.disconnects = IF @ < 2 THEN @ + 1 ELSE @]

\* SQLiteAdapter.disconnect / BigQueryAdapter.disconnect
AdapterDisconnect(a) ==
    [a EXCEPT !.conn = FALSE, !.disconnects = IF @ < 2 THEN @ + 1 ELSE @]

\* What the backend makes of a submitted statement.
BackendEnv == {"rows0", "rows1", "rows2", "error"}

BackendColumns == <<"id", "name">>
BackendRows(env) ==
    CASE env = "rows1" -> <<"row1">>
      [] env = "rows2" -> <<"row1", "row2">>
      [] OTHER -> << >>

ExecRet(exc, result, submitted) == [exc |-> exc, result |-> result, submitted |-> submitted]

NoResult == QueryResult(FALSE, None, None, None, None, None)

\* The safety check of SQLiteAdapter.execute_query (line 104): the query is let through.
SQLitePassesCheck(q) == StartsWithSELECT(Upper(Strip(q)))

\* Pieces no SQL statement holds.
NotSQL == JsonPieces \cup Fences \cup {"SELECTED", "{"}

\* One statement the engines parse: a SELECT, or a mutating statement (which
\* takes no LIMIT clause).
StatementParses(st) ==
    LET u == Upper(Strip(st)) IN
    /\ u # << >>
    /\ \A i \in 1..Len(u) : u[i] \notin NotSQL
    /\ \/ Head(u) = "SELECT"
       \/ Head(u) \in MutatingVerbs /\ \A i \in 1..Len(u) : u[i] # "LIMIT"

\* The text without its closing semicolons and surrounding white space.
StatementText(q) == Strip(RStripChar(Strip(q), ";"))

\* Statements cursor.execute runs: one statement that parses.
SQLiteRuns(q) ==
    \E text \in {StatementText(q)} :
        /\ \A i \in 1..Len(text) : text[i] # ";"
        /\ StatementParses(text)

\* Statements client.query runs: a statement or a script, every statement of
\* which parses.
BigQueryRuns(q) ==
    \E sts \in {SplitOn(StatementText(q), ";")} :
        \A i \in 1..Len(sts) : \E st \in {sts[i]} : StatementParses(st)

\* execute_query without the test of self.conn.
SQLiteExecuteQueryUnguarded(a, qo, env) ==
    IF ~SQLitePassesCheck(qo.query_string)
    THEN ExecRet("QueryExecutionError", NoResult, FALSE)
    ELSE IF ~SQLiteRuns(qo.query_string) \/ env = "error"
    THEN ExecRet("QueryExecutionError", NoResult, TRUE)
    ELSE ExecRet("none",
                 QueryResult(TRUE, Some(BackendColumns), Some(BackendRows(env)),
                             Some(Len(BackendRows(env))), None, None),
                 TRUE)

\* SQLiteAdapter.execute_query
SQLiteExecuteQuery(a, qo, env) ==
    IF ~a.conn THEN ExecRet("ConnectionError", NoResult, FALSE)
    ELSE IF ~SQLitePassesCheck(qo.query_string)
    THEN ExecRet("QueryExecutionError", NoResult, FALSE)
    ELSE IF ~SQLiteRuns(qo.query_string) \/ env = "error"
    THEN ExecRet("QueryExecutionError", NoResult, TRUE)
    ELSE ExecRet("none",
                 QueryResult(TRUE, Some(BackendColumns), Some(BackendRows(env)),
                             Some(Len(BackendRows(env))), None, None),
                 TRUE)

\* BigQueryAdapter.execute_query: no check stands between the connection test
\* and client.query.
BigQueryExecuteQuery(a, qo, env) ==
    IF ~a.conn THEN ExecRet("ConnectionError", NoResult, FALSE)
    ELSE IF ~BigQueryRuns(qo.query_string) \/ env = "error"
    THEN ExecRet("QueryExecutionError", NoResult, TRUE)
    ELSE ExecRet("none",
                 QueryResult(TRUE, Some(BackendColumns), Some(BackendRows(env)),
                             Some(Len(BackendRows(env))), None, Some("job")),
                 TRUE)

AdapterExecuteQuery(a, qo, env) ==
    IF a.kind = "sqlite" THEN SQLiteExecuteQuery(a, qo, env)
    ELSE BigQueryExecuteQuery(a, qo, env)

\* ---- schema
\* common_interfaces.SchemaColumn / TableSchema / SchemaInfo
SchemaColumn(name, type, required, pk) ==
    [name |-> name, type |-> type, required |-> required, pk |-> pk]
TableSchema(table_name, columns, description) ==
    [table_name |-> table_name, columns |-> columns, description |-> description]
SchemaInfo(tables, error_message) == [tables |-> tables, error_message |-> error_message]

\* Tables of the backend, as each adapter describes them.
BackendTableNames(env) ==
    CASE env = "tables1" -> <<"candidates">>
      [] env = "tables2" -> <<"candidates", "log_table">>
      [] OTHER -> << >>

SchemaEnv == {"tables0", "tables1", "tables2", "error"}

\* PRAGMA table_info rows turned into SchemaColumn (sqlite_adapter.py 153-164)
SQLiteTable(name) ==
    IF name = "candidates"
    THEN TableSchema(name,
            << SchemaColumn("id", "INTEGER", Some(FALSE), Some(TRUE)),
               SchemaColumn("name", "TEXT", Some(TRUE), Some(FALSE)) >>, None)
    ELSE TableSchema(name, << SchemaColumn("log_entry", "TEXT", Some(FALSE), Some(FALSE)) >>, None)

\* BigQueryAdapter._fetch_single_table_schema
BigQueryTable(dataset, name) ==
    IF name = "candidates"
    THEN TableSchema(<<dataset, ".", name>>,
            << SchemaColumn("id", "INTEGER", Some(TRUE), None),
               SchemaColumn("name", "STRING", Some(FALSE), None) >>, Some("people"))
    ELSE TableSchema(<<dataset, ".", name>>,
            << SchemaColumn("log_entry", "JSON", Some(FALSE), None) >>, None)

\* Entity names: dotted parts.
Entities ==
    { <<"candidates">>, <<"nosuch">>, <<"ds", "candidates">>, <<"ds", "nosuch">>,
      <<"p", "ds", "candidates">> }

InSeq(x, sq) == \E i \in 1..Len(sq) : sq[i] = x

SchemaRet(exc, info) == [exc |-> exc, info |-> info]
NoSchema == SchemaInfo(None, None)

\* SQLiteAdapter.get_schema_information; entity is None or Some(name parts)
SQLiteGetSchema(a, entity, env) ==
    LET names == BackendTableNames(env) IN
    IF ~a.conn THEN SchemaRet("ConnectionError", NoSchema)
    ELSE IF env = "error" THEN SchemaRet("SchemaError", NoSchema)
    ELSE IF entity # None
    THEN IF Len(entity[1]) = 1 /\ InSeq(entity[1][1], names)
         THEN SchemaRet("none", SchemaInfo(Some(<<SQLiteTable(entity[1][1])>>), None))
         ELSE SchemaRet("none", SchemaInfo(None, Some("not found")))
    ELSE IF names = << >>
         THEN SchemaRet("none", SchemaInfo(Some(<< >>), Some("No tables found")))
         ELSE SchemaRet("none",
                 SchemaInfo(Some([i \in 1..Len(names) |-> SQLiteTable(names[i])]), None))

\* BigQueryAdapter._resolve_entity_name: <<ok, dataset, table>>
ResolveEntityName(a, parts) ==
    IF Len(parts) = 2 THEN <<TRUE, parts[1], parts[2]>>
    ELSE IF Len(parts) = 1 /\ a.dataset THEN <<TRUE, "ds", parts[1]>>
    ELSE IF Len(parts) >= 3 THEN <<TRUE, parts[Len(parts) - 1], parts[Len(parts)]>>
    ELSE <<FALSE, "", "">>

\* BigQueryAdapter.get_schema_information
BigQueryGetSchema(a, entity, env) ==
    LET names == BackendTableNames(env) IN
    IF ~a.conn THEN SchemaRet("ConnectionError", NoSchema)
    ELSE IF entity # None
    THEN LET r == ResolveEntityName(a, entity[1]) IN
         IF ~r[1] \/ env = "error" \/ r[2] # "ds" \/ ~InSeq(r[3], names)
         THEN SchemaRet("SchemaError", NoSchema)
         ELSE SchemaRet("none", SchemaInfo(Some(<<BigQueryTable(r[2], r[3])>>), None))
    ELSE IF a.dataset
    THEN IF env = "error" THEN SchemaRet("SchemaError", NoSchema)
         ELSE IF names = << >> THEN SchemaRet("none", SchemaInfo(None, None))
         ELSE SchemaRet("none",
                 SchemaInfo(Some([i \in 1..Len(names) |-> BigQueryTable("ds", names[i])]), None))
    ELSE SchemaRet("none", SchemaInfo(None, Some("Cannot list tables")))

AdapterGetSchema(a, entity, env) ==
    IF a.kind = "sqlite" THEN SQLiteGetSchema(a, entity, env)
    ELSE BigQueryGetSchema(a, entity, env)

\* ---- the adapter class driven directly (as its unit tests would)
NoOut == [op |-> "none", query |-> Q_Empty, entity |-> None, exc |-> "none",
          submitted |-> FALSE, result |-> NoResult, info |-> NoSchema]

A_Construct ==
    /\ \E k \in AdapterKinds : inst' = NewAdapter(k)
    /\ backendLog' = << >>
    /\ aout' = [NoOut EXCEPT !.op = "construct"]

A_Connect ==
    /\ inst.made
    /\ inst.connects = 0
    /\ \E config \in Configs, env \in ConnectEnv :
          LET r == AdapterConnect(inst, config, env) IN
          /\ inst' = r.inst
          /\ aout' = [NoOut EXCEPT !.op = "connect", !.exc = r.exc]
    /\ UNCHANGED backendLog

A_Disconnect ==
    /\ inst.made
    /\ inst.disconnects < 2
    /\ inst' = AdapterDisconnect(inst)
    /\ aout' = [NoOut EXCEPT !.op = "disconnect"]
    /\ UNCHANGED backendLog

A_ExecuteQuery ==
    /\ inst.made
    /\ Len(backendLog) < 1
    /\ \E q \in TestQueries, env \in BackendEnv :
          LET r == AdapterExecuteQuery(inst, QueryObject(q, None), env) IN
          /\ backendLog' = IF r.submitted THEN Append(backendLog, q) ELSE backendLog
          /\ aout' = [NoOut EXCEPT !.op = "execute_query", !.query = q, !.exc = r.exc,
                                   !.submitted = r.submitted, !.result = r.result]
    /\ UNCHANGED inst

A_GetSchema ==
    /\ inst.made
    /\ \E e \in {None} \cup {Some(x) : x \in Entities}, env \in SchemaEnv :
          LET r == AdapterGetSchema(inst, e, env) IN
          aout' = [NoOut EXCEPT !.op = "get_schema_information", !.entity = e,
                                !.exc = r.exc, !.info = r.info]
    /\ UNCHANGED <<inst, backendLog>>

\* ================================================================ planner
VARIABLES
    llm_client_qpa,   \* the module global: TRUE when a ChatVertexAI client was built
    ppc,              \* position of the request inside plan_and_execute_query
    preq,             \* the request: sink_id, user_intent, llm_analysis
    adapter,          \* the local variable `adapter` is bound (to inst)
    pconfig,          \* effective_config of the factory
    pentity,          \* entity_name_for_schema: None or Some(name parts)
    pschema,          \* schema_info_for_planning
    pquery,           \* query_obj
    llm_output_text,  \* what the LLM answered to the synthesis: None or Some(text)
    pexc,             \* the exception travelling to the except clauses
    presult,          \* the value plan_and_execute_query returns
    constructions,    \* adapter instances constructed during the request
    execCalls         \* query strings adapter.execute_query was called with

plannerVars ==
    <<llm_client_qpa, ppc, preq, adapter, pconfig, pentity, pschema, pquery, pexc, presult,
      constructions, execCalls, llm_output_text>>

\* ---- parsing of the synthesis collaborator's output (lines 206-320)
\* json.loads of a piece: is it a dict, its "query" and its "params"
JsonDoc(p) ==
    CASE p = "J_QP" -> [dict |-> TRUE, query |-> Some(Q_Select), params |-> Some("P")]
      [] p = "J_QDROP" -> [dict |-> TRUE, query |-> Some(Q_Drop), params |-> None]
      [] p = "J_P" -> [dict |-> TRUE, query |-> None, params |-> None]
      [] OTHER -> [dict |-> FALSE, query |-> None, params |-> None]

\* cleaned_output[len(fence):].strip(), then the closing fence removed
StripFence(q) ==
    LET body == Strip(Tail(q)) IN
    IF EndsWith(body, "[fence]") THEN Strip(SubSeq(body, 1, Len(body) - 1)) ELSE body

\* lines 209-223
CleanOutput(raw) ==
    LET c == Strip(raw) IN
    IF c # << >> /\ Head(c) \in Fences THEN StripFence(c) ELSE c

\* str.split('\n')
SplitLines(q) == SplitOn(q, "\n")

RECURSIVE JoinLines(_)
\* "\n".join(lines)
JoinLines(lines) ==
    IF lines = << >> THEN << >>
    ELSE IF Len(lines) = 1 THEN lines[1]
    ELSE lines[1] \o <<"\n">> \o JoinLines(Tail(lines))

RECURSIVE Concat(_)
\* "".join(lines)
Concat(lines) == IF lines = << >> THEN << >> ELSE Head(lines) \o Concat(Tail(lines))

RECURSIVE ScanLines(_, _, _, _)
\* the loop of lines 266-274: <<accumulated_query_lines, json_param_block_lines>>
ScanLines(lines, acc, jsonl, parsing) ==
    IF lines = << >> THEN <<acc, jsonl>>
    ELSE LET line == Head(lines)
             stripped == Strip(line)
             p == parsing \/ ( /\ stripped # << >>
                               /\ Head(stripped) \in JsonPieces \cup {"{"}
                               /\ acc = << >> )
         IN IF p THEN ScanLines(Tail(lines), acc, Append(jsonl, line), TRUE)
            ELSE IF stripped # << >>
                 THEN ScanLines(Tail(lines), Append(acc, stripped), jsonl, FALSE)
                 ELSE ScanLines(Tail(lines), acc, jsonl, FALSE)

\* lines 227-294: <<query_string_from_llm, parameters_from_llm>>
ExtractQuery(raw) ==
    LET c == CleanOutput(raw)
        isJson == Len(c) = 1 /\ c[1] \in JsonPieces
        doc == IF isJson THEN JsonDoc(c[1]) ELSE JsonDoc("")
        q1 == IF doc.dict /\ doc.query # None THEN doc.query[1] ELSE << >>
        p1 == IF doc.dict THEN doc.params ELSE None
    IN IF q1 # << >> THEN <<q1, p1>>
       ELSE LET sc == ScanLines(SplitLines(c), << >>, << >>, FALSE)
                pj == Strip(Concat(sc[2]))
                pdoc == IF Len(pj) = 1 /\ pj[1] \in JsonPieces THEN JsonDoc(pj[1])
                        ELSE JsonDoc("")
            IN <<JoinLines(sc[1]), IF pdoc.dict THEN Some("P") ELSE p1>>

\* lines 296-301
TidyQuery(q) ==
    LET a == RStripChar(Strip(q), ";")
        b == IF StartsWith(a, "[fence-sql]") THEN Strip(Tail(a)) ELSE a
        c == IF EndsWith(b, "[fence]") THEN Strip(SubSeq(b, 1, Len(b) - 1)) ELSE b
    IN IF StartsWith(c, "[fence]") THEN Strip(Tail(c)) ELSE c

DefaultLimit == <<" ", "LIMIT", " ", "20">>

\* lines 311-314
WithDefaultLimit(q) ==
    IF ~Contains(Upper(q), "LIMIT") /\ ~Contains(Upper(q), "COUNT(")
    THEN q \o DefaultLimit ELSE q

\* The planner's own validation of the candidate (line 307): it is let through.
PlannerAccepts(q) == StartsWithSELECT(Upper(q))

GenRet(exc, qo) == [exc |-> exc, query |-> qo]
NoQuery == QueryObject(Q_Empty, None)

\* _generate_query_object_with_llm from the collaborator's answer on;
\* raw is None when llm_client_qpa.ainvoke raised
GenerateQueryObject(raw) ==
    IF raw = None THEN GenRet("QueryExecutionError", NoQuery)
    ELSE LET ex == ExtractQuery(raw[1])
             q == TidyQuery(ex[1])
         IN IF q = << >> THEN GenRet("QueryExecutionError", NoQuery)
            ELSE IF ~PlannerAccepts(q) THEN GenRet("QueryExecutionError", NoQuery)
            ELSE GenRet("none", QueryObject(WithDefaultLimit(q), ex[2]))

\* What the synthesis collaborator may answer.
LlmOutputs ==
    { Q_Select, Q_SelectLower, Q_SelectLimit, Q_Count, Q_RateLimit, Q_Drop, Q_Insert,
      Q_SelectDrop, Q_Empty,
      Q_Select \o <<"\n", "J_P">>,
      Q_SelectLimit \o <<"\n", "J_P">>,
      <<"[fence-sql]", "\n">> \o Q_Select \o <<"\n", "[fence]">>,
      <<"J_QP">>, <<"J_QDROP">>, <<"J_P">> }

\* ---- the request
\* user_intent as lower-cased words
Intents ==
    { <<"list", "engineers">>, <<"get", "schema">>, <<"schema", "for", "candidates">>,
      <<"schema", "for", "table", "nosuch">>, <<"what", "tables">> }

\* llm_analysis: None or Some([operation, entity_name])
Analyses ==
    { None, Some([operation |-> "get_schema", entity_name |-> None]),
      Some([operation |-> "query", entity_name |-> None]) }

\* Requests: the sink ids of the catalogue and one never registered.
RequestSinkIds == SinkIds \cup {"s_unknown"}
NoRequest == [sink_id |-> "s1", user_intent |-> <<"list", "engineers">>, llm_analysis |-> None]

\* `phrase in user_intent.lower()`
HasPhrase(words, phrase) ==
    \E i \in 1..(Len(words) - Len(phrase) + 1) :
        SubSeq(words, i, i + Len(phrase) - 1) = phrase

\* user_intent.lower().split(phrase)[-1].strip().split(" ")[0]: None for ''
WordAfter(words, phrase) ==
    LET k == CHOOSE i \in 1..(Len(words) - Len(phrase) + 1) :
                 /\ SubSeq(words, i, i + Len(phrase) - 1) = phrase
                 /\ \A j \in (i + 1)..(Len(words) - Len(phrase) + 1) :
                        SubSeq(words, j, j + Len(phrase) - 1) # phrase
    IN IF k + Len(phrase) <= Len(words) THEN Some(<<words[k + Len(phrase)]>>) ELSE None

\* prompt_lower.split(phrase)[-1]: what follows the last occurrence of the
\* phrase, the whole prompt when the phrase does not occur
LastPiece(words, phrase) ==
    IF ~HasPhrase(words, phrase) THEN words
    ELSE LET k == CHOOSE i \in 1..(Len(words) - Len(phrase) + 1) :
                     /\ SubSeq(words, i, i + Len(phrase) - 1) = phrase
                     /\ \A j \in (i + 1)..(Len(words) - Len(phrase) + 1) :
                            SubSeq(words, j, j + Len(phrase) - 1) # phrase
         IN SubSeq(words, k + Len(phrase), Len(words))

\* The empty string as an entity name.
EmptyName == Some(<< >>)

\* s.strip().split(" ")[0]: the first word, '' when there is none
FirstWord(words) == IF words = << >> THEN EmptyName ELSE Some(<<Head(words)>>)

\* chat_agent/mcp_tools.py lines 33-35: entity_name of the second branch
PreliminaryEntity(words) ==
    LET e == FirstWord(LastPiece(words, <<"schema", "for">>)) IN
    IF e = EmptyName /\ HasPhrase(words, <<"get", "schema">>) THEN None ELSE e

\* chat_agent/mcp_tools.py lines 17-43: _preliminary_intent_analysis
PreliminaryIntentAnalysis(words) ==
    IF HasPhrase(words, <<"schema", "for", "table">>)
    THEN [operation |-> "get_schema",
          entity_name |-> FirstWord(LastPiece(words, <<"schema", "for", "table">>))]
    ELSE IF HasPhrase(words, <<"schema", "for">>) \/ HasPhrase(words, <<"get", "schema">>)
    THEN [operation |-> "get_schema", entity_name |-> PreliminaryEntity(words)]
    ELSE [operation |-> "execute_query", entity_name |-> None]

\* chat_agent/mcp_tools.py lines 69-79: the requests handle_data_query sends
ChatRequests ==
    { [sink_id |-> s, user_intent |-> i, llm_analysis |-> Some(PreliminaryIntentAnalysis(i))] :
        s \in RequestSinkIds, i \in Intents }

Requests ==
    [sink_id : RequestSinkIds, user_intent : Intents, llm_analysis : Analyses] \cup ChatRequests

\* lines 356-359
IsGetSchemaIntent(req) ==
    \/ HasPhrase(req.user_intent, <<"schema", "for">>)
    \/ HasPhrase(req.user_intent, <<"get", "schema">>)
    \/ (req.llm_analysis # None /\ req.llm_analysis[1].operation = "get_schema")

\* lines 362-370
EntityNameForSchema(req) ==
    IF req.llm_analysis # None /\ req.llm_analysis[1].entity_name \notin {None, EmptyName}
    THEN req.llm_analysis[1].entity_name
    ELSE IF HasPhrase(req.user_intent, <<"schema", "for", "table">>)
    THEN WordAfter(req.user_intent, <<"schema", "for", "table">>)
    ELSE IF HasPhrase(req.user_intent, <<"schema", "for">>)
    THEN WordAfter(req.user_intent, <<"schema", "for">>)
    ELSE None

Exc(type, msg) == [type |-> type, msg |-> msg]
NoExc == Exc("none", << >>)

\* get_sink_details answering an unknown id with a stand-in descriptor
get_sink_details_default(sink_id) ==
    IF sink_id \in DOMAIN sinkFile THEN Some(sinkFile[sink_id])
    ELSE Some([sink_type |-> "sqlite", connection_ref |-> "path_ok"])

\* sinks.get(sink_id) of get_sink_details: None or Some(descriptor)
get_sink_details(sink_id) ==
    IF sink_id \in DOMAIN sinkFile THEN Some(sinkFile[sink_id]) ELSE None

\* ADAPTER_MAP
ADAPTER_MAP == {"sqlite", "bigquery"}

\* What the call to the Sink Registry meets: an answer, an error envelope, an
\* HTTP error status, a transport error or timeout, anything else.
RegistryEnv == {"ok", "rpc_error", "http_error", "request_error", "unexpected"}

PerRequestReset ==
    /\ adapter' = FALSE
    /\ pconfig' = "empty"
    /\ pentity' = None
    /\ pschema' = NoSchema
    /\ pquery' = NoQuery
    /\ llm_output_text' = None
    /\ pexc' = NoExc
    /\ constructions' = 0
    /\ execCalls' = << >>
    /\ inst' = NoInst
    /\ backendLog' = << >>
    /\ aout' = NoOut

\* lines 322-334: entry, and the return taken when no LLM client exists
P_Start ==
    /\ ppc \in {"idle", "returned"}
    /\ \E r \in Requests : preq' = r
    /\ PerRequestReset
    /\ IF llm_client_qpa
       THEN /\ ppc' = "ResolveSink"
            /\ presult' = NoResult
       ELSE /\ ppc' = "returned"
            /\ presult' = FailureResult(<<"Query Planner's LLM client is not available.">>)
    /\ UNCHANGED <<llm_client_qpa, sinkVars>>

\* An error that passes the except clauses by.
RaiseUnhandled(type, msg) ==
    /\ pexc' = Exc(type, msg)
    /\ ppc' = "finally"

Raise(type, msg) ==
    /\ pexc' = Exc(type, msg)
    /\ ppc' = "except"

\* lines 336-351: _a2a_call_to_sink_registry and the checks on its answer
P_ResolveSink ==
    /\ ppc = "ResolveSink"
    /\ \E env \in RegistryEnv :
          CASE env = "rpc_error" -> Raise("ConfigurationError", <<"Error from SinkRegistryAgent">>)
            [] env = "http_error" -> Raise("ConfigurationError", <<"Failed to call SinkRegistryAgent">>)
            [] env = "request_error" -> Raise("ConnectionError", <<"SinkRegistryAgent unavailable">>)
            [] env = "unexpected" -> Raise("DataAccessError", <<"Unexpected error during A2A">>)
            [] OTHER ->
                 LET cfg == get_sink_details(preq.sink_id) IN
                 IF cfg = None
                 THEN Raise("ConfigurationError",
                            <<"Sink configuration for ID", preq.sink_id, "not found or invalid">>)
                 ELSE IF cfg[1].sink_type = ""
                 THEN Raise("ConfigurationError", <<"Sink type not defined for", preq.sink_id>>)
                 ELSE /\ ppc' = "ConnectAdapter"
                      /\ UNCHANGED pexc
    /\ UNCHANGED <<llm_client_qpa, preq, llm_output_text, adapter, pconfig, pentity, pschema, pquery, presult,
                   constructions, execCalls, sinkVars, adapterVars>>

\* get_adapter_factory_local, lines 63-79: the instance is constructed and
\* the configuration made effective
P_Construct ==
    /\ ppc = "ConnectAdapter"
    /\ LET cfg == get_sink_details(preq.sink_id)[1] IN
       IF cfg.sink_type \notin ADAPTER_MAP
       THEN /\ Raise("ConfigurationError", <<"Unsupported sink type">>)
            /\ UNCHANGED <<inst, constructions, pconfig>>
       ELSE /\ inst' = NewAdapter(cfg.sink_type)
            /\ constructions' = constructions + 1
            /\ IF cfg.sink_type = "sqlite"
               THEN IF cfg.connection_ref \in {"path_ok", "path_missing"}
                    THEN /\ pconfig' = IF cfg.connection_ref = "path_ok"
                                       THEN "sqlite_ok" ELSE "sqlite_missing"
                         /\ ppc' = "connect"
                         /\ UNCHANGED pexc
                    ELSE IF cfg.connection_ref \in {"sqlite_ok", "sqlite_missing"}
                    THEN /\ pconfig' = cfg.connection_ref
                         /\ ppc' = "connect"
                         /\ UNCHANGED pexc
                    ELSE /\ Raise("ConfigurationError", <<"Invalid config for SQLite adapter">>)
                         /\ UNCHANGED pconfig
               ELSE /\ pconfig' = cfg.connection_ref
                    /\ ppc' = "connect"
                    /\ UNCHANGED pexc
    /\ UNCHANGED <<llm_client_qpa, preq, llm_output_text, adapter, pentity, pschema, pquery, presult, execCalls,
                   sinkVars, backendLog, aout>>

\* get_adapter_factory_local, lines 80-89, and the assignment of line 353
P_Connect ==
    /\ ppc = "connect"
    /\ \E env \in ConnectEnv :
          LET r == AdapterConnect(inst, pconfig, env) IN
          /\ inst' = r.inst
          /\ IF r.exc = "none"
             THEN /\ adapter' = TRUE
                  /\ ppc' = "Branch"
                  /\ UNCHANGED pexc
             ELSE /\ Raise("ConnectionError", <<"Failed to connect adapter">>)
                  /\ UNCHANGED adapter
    /\ UNCHANGED <<llm_client_qpa, preq, llm_output_text, pconfig, pentity, pschema, pquery, presult,
                   constructions, execCalls, sinkVars, backendLog, aout>>

\* lines 356-372
P_Branch ==
    /\ ppc = "Branch"
    /\ IF IsGetSchemaIntent(preq)
       THEN /\ pentity' = EntityNameForSchema(preq)
            /\ ppc' = "SchemaOnly"
       ELSE /\ ppc' = "PlanQuery"
            /\ UNCHANGED pentity
    /\ UNCHANGED <<llm_client_qpa, preq, llm_output_text, adapter, pconfig, pschema, pquery, pexc, presult,
                   constructions, execCalls, sinkVars, adapterVars>>

RECURSIVE TableRows(_, _)
\* one row per column of a table (lines 382-390)
TableRows(table, cols) ==
    IF cols = << >> THEN << >>
    ELSE << [table_name |-> table.table_name, column_name |-> Head(cols).name,
             column_type |-> Head(cols).type, is_primary_key |-> Head(cols).pk,
             is_required |-> Head(cols).required, table_description |-> table.description] >>
         \o TableRows(table, Tail(cols))

RECURSIVE SchemaRows(_)
\* Rows taken from the first table only.
SchemaRowsOfFirstTable(tables) ==
    IF tables = << >> THEN << >>
    ELSE TableRows(Head(tables), Head(tables).columns)

\* lines 378-390
SchemaRows(tables) ==
    IF tables = << >> THEN << >>
    ELSE TableRows(Head(tables), Head(tables).columns) \o SchemaRows(Tail(tables))

SchemaColumns ==
    <<"table_name", "column_name", "column_type", "is_primary_key", "is_required",
      "table_description">>

\* `schema_info.error_message and not schema_info.tables`
SchemaFailed(info) ==
    info.error_message # None /\ (info.tables = None \/ info.tables[1] = << >>)

\* lines 373-391
P_SchemaOnly ==
    /\ ppc = "SchemaOnly"
    /\ \E env \in SchemaEnv :
          LET r == AdapterGetSchema(inst, pentity, env) IN
          IF r.exc # "none"
          THEN /\ Raise(r.exc, <<"schema retrieval error">>)
               /\ UNCHANGED <<presult, pschema>>
          ELSE /\ ppc' = "finally"
               /\ UNCHANGED pexc
               /\ pschema' = r.info
               /\ presult' =
                    IF SchemaFailed(r.info)
                    THEN FailureResult(r.info.error_message[1])
                    ELSE LET rows == IF r.info.tables = None THEN << >>
                                     ELSE SchemaRows(r.info.tables[1])
                         IN QueryResult(TRUE, Some(SchemaColumns), Some(rows),
                                        Some(Len(rows)), None, Some("Schema"))
    /\ UNCHANGED <<llm_client_qpa, preq, llm_output_text, adapter, pconfig, pentity, pquery,
                   constructions, execCalls, sinkVars, adapterVars>>

\* lines 394-397
P_PlanSchema ==
    /\ ppc = "PlanQuery"
    /\ \E env \in SchemaEnv :
          LET r == AdapterGetSchema(inst, None, env) IN
          IF r.exc # "none"
          THEN /\ Raise(r.exc, <<"schema retrieval error">>)
               /\ UNCHANGED pschema
          ELSE /\ pschema' = r.info
               /\ ppc' = "Synthesize"
               /\ UNCHANGED pexc
    /\ UNCHANGED <<llm_client_qpa, preq, llm_output_text, adapter, pconfig, pentity, pquery, presult,
                   constructions, execCalls, sinkVars, adapterVars>>

\* lines 399-405: _generate_query_object_with_llm
P_Synthesize ==
    /\ ppc = "Synthesize"
    /\ \E raw \in {None} \cup {Some(o) : o \in LlmOutputs} :
          LET g == GenerateQueryObject(raw) IN
          /\ llm_output_text' = raw
          /\ IF g.exc # "none"
             THEN /\ Raise(g.exc, <<"LLM query generation failed">>)
                  /\ UNCHANGED pquery
             ELSE /\ pquery' = g.query
                  /\ ppc' = "ExecuteQuery"
                  /\ UNCHANGED pexc
    /\ UNCHANGED <<llm_client_qpa, preq, adapter, pconfig, pentity, pschema, presult,
                   constructions, execCalls, sinkVars, adapterVars>>

\* lines 406-408
P_Execute ==
    /\ ppc = "ExecuteQuery"
    /\ \E env \in BackendEnv :
          LET r == AdapterExecuteQuery(inst, pquery, env) IN
          /\ execCalls' = Append(execCalls, pquery.query_string)
          /\ backendLog' = IF r.submitted THEN Append(backendLog, pquery.query_string)
                           ELSE backendLog
          /\ IF r.exc # "none"
             THEN /\ Raise(r.exc, <<"execution error">>)
                  /\ UNCHANGED presult
             ELSE /\ presult' = r.result
                  /\ ppc' = "finally"
                  /\ UNCHANGED pexc
    /\ UNCHANGED <<llm_client_qpa, preq, llm_output_text, adapter, pconfig, pentity, pschema, pquery,
                   constructions, sinkVars, inst, aout>>

\* lines 410-418: the except clauses
P_Except ==
    /\ ppc = "except"
    /\ presult' = FailureResult(pexc.msg)
    /\ ppc' = "finally"
    /\ UNCHANGED <<llm_client_qpa, preq, llm_output_text, adapter, pconfig, pentity, pschema, pquery, pexc,
                   constructions, execCalls, sinkVars, adapterVars>>

\* What the finally clause does with the instance bound to `adapter`.
FinallyDisconnect(a) == AdapterDisconnect(a)

\* How adapter.disconnect() ends in the finally clause: the adapter is any
\* implementation of CommonDataAccessInterface, whose disconnect may raise.
DisconnectEnv == {"closes", "raises"}

\* A disconnect error that takes the place of the result.
FinallyOutcomeMasked(result, exc) ==
    IF exc = "none" THEN result
    ELSE FailureResult(<<"Error disconnecting adapter">>)

\* lines 422-425: what the request returns once disconnect ended with exc;
\* the except clause only logs
FinallyOutcome(result, exc) == result

\* lines 419-425: the finally clause
P_Finally ==
    /\ ppc = "finally"
    /\ \E d \in DisconnectEnv :
          LET exc == IF adapter /\ d = "raises" THEN "Exception" ELSE "none" IN
          /\ inst' = IF ~adapter THEN inst
                     ELSE IF exc = "none" THEN FinallyDisconnect(inst)
                     ELSE [inst EXCEPT !.disconnects = IF @ < 2 THEN @ + 1 ELSE @]
          /\ aout' = IF adapter THEN [NoOut EXCEPT !.op = "disconnect", !.exc = exc]
                     ELSE aout
          /\ presult' = FinallyOutcome(presult, exc)
    /\ ppc' = "returned"
    /\ UNCHANGED <<llm_client_qpa, preq, llm_output_text, adapter, pconfig, pentity, pschema, pquery, pexc,
                   constructions, execCalls, sinkVars, backendLog>>

\* The descriptors the planner meets in the catalogue.
PlannerDescs ==
    { [sink_type |-> "sqlite", connection_ref |-> "path_ok"],
      [sink_type |-> "sqlite", connection_ref |-> "path_missing"],
      [sink_type |-> "sqlite", connection_ref |-> "sqlite_ok"],
      [sink_type |-> "sqlite", connection_ref |-> "empty"],
      [sink_type |-> "bigquery", connection_ref |-> "bq_ok"],
      [sink_type |-> "bigquery", connection_ref |-> "bq_nodataset"],
      [sink_type |-> "bigquery", connection_ref |-> "path_ok"],
      [sink_type |-> "bigquery", connection_ref |-> "empty"],
      [sink_type |-> "s3", connection_ref |-> "bq_ok"],
      [sink_type |-> "", connection_ref |-> "path_ok"] }

\* Catalogues with at most one sink registered.
PlannerCatalogues ==
    {EmptyCatalogue} \cup
    { [s \in {id} |-> d] : id \in SinkIds, d \in PlannerDescs }

PlannerIdle ==
    /\ llm_client_qpa = FALSE
    /\ ppc = "idle"
    /\ preq = NoRequest
    /\ adapter = FALSE
    /\ pconfig = "empty"
    /\ pentity = None
    /\ pschema = NoSchema
    /\ pquery = NoQuery
    /\ llm_output_text = None
    /\ pexc = NoExc
    /\ presult = NoResult
    /\ constructions = 0
    /\ execCalls = << >>

\* -------------------------------------------------------------- dispatchers
\* The POST /a2a handlers of the agents' main.py.  One request is served in
\* one step: the handlers are coroutines that do not yield before the tool
\* function they call has returned.
VARIABLES
    chat_context,   \* mcp_tools.chat_context of the Chat Agent is set
    dagent,         \* the agent that served the last request
    drequest,       \* the body of the last request
    dresponse,      \* what the client received for it
    dinvoked        \* the attribute the dispatcher called, "none" if none

dispatchVars == <<chat_context, dagent, drequest, dresponse, dinvoked>>

\* JSON values of the "id" member, written with their type; Absent is a
\* member the request object does not have.
Absent == "absent"
JsonNull == "null"
IdValues == {"int:1", "int:0", "str:a", "str:", JsonNull}
Versions == {"2.0", "1.0"}

\* Python truthiness of an id value, and `x or None`
Falsy(v) == v \in {"int:0", "str:", JsonNull}
OrNone(v) == IF Falsy(v) THEN JsonNull ELSE v

\* JSON-RPC error codes as the dispatchers write them
INVALID_REQUEST == -32600
METHOD_NOT_FOUND == -32601
INVALID_PARAMS == -32602
INTERNAL_ERROR == -32603
SERVER_ERROR == -32000

\* An attribute that hasattr finds: a tool function the agent's card in
\* AGENT_CARDS_SEED_DATA publishes ("capability"; for the BigQuery sink, which
\* has no card, the public methods of its tools object), another function
\* ("helper"), or an object that cannot be called ("value").  required and
\* optional are the keyword parameters of the signature, raises the
\* exceptions its body lets out once the arguments are bound.
Attr(name, kind, required, optional, raises) ==
    [name |-> name, kind |-> kind, required |-> required,
     optional |-> optional, raises |-> raises]
Capability(name, required, optional, raises) ==
    Attr(name, "capability", required, optional, raises)
Helper(name, required, optional, raises) ==
    Attr(name, "helper", required, optional, raises)
Value(name) == Attr(name, "value", {}, {}, {})

a2a_registry_attrs ==
    { Capability("get_agent", {"name"}, {}, {}),
      Capability("list_agents", {}, {}, {}),
      Capability("get_method_details", {"agent_name", "method_name"}, {}, {}),
      Helper("init_database", {}, {}, {}),
      Helper("_get_db_conn", {}, {}, {"Exception"}),
      Helper("create_method_metadata", {"name", "description"}, {"params", "returns"}, {}),
      Value("logger"), Value("AGENT_CARDS_SEED_DATA") }

RegisterSinkParams ==
    { "sink_id", "name", "description", "sink_type", "connection_ref",
      "schema_definition", "query_agent_method", "schema_agent_method" }

sink_registry_attrs ==
    { Capability("register_sink", RegisterSinkParams, {}, {}),
      Capability("get_sink_details", {"sink_id"}, {}, {}),
      Capability("list_sinks", {}, {}, {}),
      Capability("delete_sink", {"sink_id"}, {}, {}),
      Helper("_load_sinks", {}, {}, {}),
      Helper("_save_sinks", {"sinks"}, {}, {}),
      Value("file_lock"), Value("logger") }

query_planner_attrs ==
    { Capability("plan_and_execute_query", {"user_intent", "sink_id"}, {"llm_analysis"}, {}),
      Helper("get_adapter_factory_local",
             {"sink_type", "sink_config_params", "sink_id_for_log"}, {}, {"Exception"}),
      Helper("init_llm_client_for_qpa", {}, {}, {}),
      Helper("_format_schema_for_llm", {"schema_info", "sink_type"}, {}, {"AttributeError"}),
      Value("ADAPTER_MAP"), Value("llm_client_qpa") }

analytics_attrs ==
    { Capability("natural_language_to_sql", {"prompt"}, {}, {"AttributeError", "TypeError"}),
      Capability("extract_parameters", {"prompt"}, {}, {"TypeError"}),
      Capability("generate_visualization", {"query_results"}, {}, {"TypeError", "Exception"}),
      Helper("extract_conditions", {"prompt"}, {}, {"AttributeError"}),
      Value("re"), Value("plt") }

\* attributes of the ChatContext instance
chat_context_attrs ==
    { Capability("process_message", {"prompt"}, {"session_id", "sink_id"}, {"Exception"}),
      Helper("close_client", {}, {}, {"Exception"}),
      Helper("_get_agent_url_from_registry", {"agent_name"}, {}, {}),
      Helper("_convert_history_to_langchain", {"history_dicts"}, {}, {"Exception"}),
      Value("llm"), Value("sessions") }

webcrawler_attrs ==
    { Capability("list_candidates", {"title", "skills"}, {}, {"TypeError"}),
      Value("FIRST_NAMES") }

webservice_attrs ==
    { Capability("search_candidates", {"title", "skills"}, {}, {"Exception"}),
      Value("os"), Value("requests") }

dbservice_attrs ==
    { Capability("create_record", {"name", "title", "skills"}, {}, {}),
      Capability("list_records", {}, {}, {}),
      Capability("get_record", {"id"}, {}, {}),
      Capability("execute_query", {"query"}, {"parameters"}, {"AttributeError"}),
      Capability("get_schema", {}, {"table_name"}, {}),
      Value("logger"), Value("DB_PATH") }

\* attributes of the BigQuerySinkTools instance
bigquery_sink_attrs ==
    { Capability("insert_log", {"log_entry"}, {}, {"Exception", "TypeError"}),
      Capability("insert_logs", {"log_entries"}, {}, {"Exception", "TypeError"}),
      Value("client"), Value("table_full") }

log_ingest_attrs ==
    { Capability("fetch_logs", {}, {}, {"Exception"}),
      Helper("_safe_proto_to_dict", {"proto"}, {}, {"Exception"}),
      Value("logger"), Value("MAX_LOGS") }

\* attributes of the MCP instance
log_router_attrs ==
    { Capability("manual_pull_insert", {}, {"max_messages"}, {"Exception"}),
      Helper("_ensure_bq_table", {}, {}, {"Exception"}),
      Value("bq_client"), Value("table_ref") }

Attributes(agent) ==
    CASE agent = "a2a_registry" -> a2a_registry_attrs
      [] agent = "sink_registry_agent" -> sink_registry_attrs
      [] agent = "query_planner_agent" -> query_planner_attrs
      [] agent = "analytics_agent" -> analytics_attrs
      [] agent = "chat_agent" -> chat_context_attrs
      [] agent = "webcrawler_agent" -> webcrawler_attrs
      [] agent = "webservice_agent" -> webservice_attrs
      [] agent = "dbservice_agent" -> dbservice_attrs
      [] agent = "bigquery_sink_agent" -> bigquery_sink_attrs
      [] agent = "log_ingest_agent" -> log_ingest_attrs
      [] OTHER -> log_router_attrs

\* hasattr(obj, method) and getattr(obj, method)
HasAttr(agent, method) == \E a \in Attributes(agent) : a.name = method
GetAttr(agent, method) == CHOOSE a \in Attributes(agent) : a.name = method

\* func(**params): the keywords bind to the signature
Binds(a, names) ==
    a.required \subseteq names /\ names \subseteq (a.required \cup a.optional)

\* How `func(**params)` ends: the exception it raised ("none": it returned)
\* and whether the body of func ran.
Outcome(invoked, exc) == [invoked |-> invoked, exc |-> exc]
NoOutcome == Outcome(FALSE, "none")

\* Calling a value, or a function with keywords that do not bind, raises
\* TypeError before any body runs.
Call(a, names) ==
    IF a.kind = "value" \/ ~Binds(a, names)
    THEN {Outcome(FALSE, "TypeError")}
    ELSE {Outcome(TRUE, e) : e \in {"none"} \cup a.raises}

Outcomes(agent, method, names) ==
    IF HasAttr(agent, method) THEN Call(GetAttr(agent, method), names) ELSE {NoOutcome}

\* list_candidates(title, skills) of the Web Crawler is called positionally
\* with params.get(...), reached only when both are given.
CrawlerOutcomes(method, names) ==
    IF method = "list_candidates" /\ {"title", "skills"} \subseteq names
    THEN {Outcome(TRUE, e) : e \in {"none"} \cup GetAttr("webcrawler_agent", method).raises}
    ELSE {NoOutcome}

\* Request bodies.  params carries the keyword names and, for the Sink
\* Registry's tools, the values of sink_id, of the descriptor and of sinks.
Params(names, sink_id, desc, sinks) ==
    [names |-> names, sink_id |-> sink_id, desc |-> desc, sinks |-> sinks]
RawRequest(jsonrpc, id, method, params) ==
    [jsonrpc |-> jsonrpc, id |-> id, method |-> method, params |-> params]
NoRawRequest ==
    RawRequest(Absent, Absent, "", Params({}, "s1", CHOOSE d \in ThreadDescs : TRUE, EmptyCatalogue))

\* What the card of the Sink Registry in AGENT_CARDS_SEED_DATA publishes for
\* register_sink: the parameters with "required": True and those with
\* "required": False.
RegisterSinkPublishedRequired == {"sink_id", "name", "sink_type", "connection_ref"}
RegisterSinkPublishedOptional ==
    {"description", "schema_definition", "query_agent_method", "schema_agent_method"}

\* The keyword set of a client that sends what the card requires and no more.
PublishedRequired(agent, method) ==
    IF agent = "sink_registry_agent" /\ method = "register_sink"
    THEN {RegisterSinkPublishedRequired}
    ELSE {}

Methods(agent) == {a.name : a \in Attributes(agent)} \cup {"no_such_method"}

\* The keyword sets tried for a method: exactly the required ones, all of the
\* signature, one required keyword left out, one unknown keyword added.
ParamNames(agent, method) ==
    IF HasAttr(agent, method)
    THEN LET a == GetAttr(agent, method) IN
         {a.required, a.required \cup a.optional, a.required \cup {"unexpected"}}
            \cup {a.required \ {p} : p \in a.required}
            \cup PublishedRequired(agent, method)
    ELSE {{}}

\* What the client receives: a JSON-RPC envelope (HTTP 200) with either a
\* result or an error member, or FastAPI's own HTTP error body.
ResultEnvelope(id) ==
    [kind |-> "envelope", status |-> 200, id |-> id,
     result |-> TRUE, error |-> FALSE, code |-> 0]
ErrorEnvelope(id, code) ==
    [kind |-> "envelope", status |-> 200, id |-> id,
     result |-> FALSE, error |-> TRUE, code |-> code]
HttpError(status) ==
    [kind |-> "http", status |-> status, id |-> JsonNull,
     result |-> FALSE, error |-> FALSE, code |-> 0]
NoResponse ==
    [kind |-> "none", status |-> 0, id |-> JsonNull,
     result |-> FALSE, error |-> FALSE, code |-> 0]

NotCalled(resp) == [resp |-> resp, invoked |-> "none"]
Called(resp, raw, o) ==
    [resp |-> resp, invoked |-> IF o.invoked THEN raw.method ELSE "none"]

\* `id: Optional[int | str] = None` of JSONRPCRequest
IdOrDefault(raw) == IF raw.id = Absent THEN JsonNull ELSE raw.id

\* a2a_registry/main.py handle_a2a; webservice_agent/main.py and
\* dbservice_agent/main.py are the same text.  A body without "jsonrpc"
\* fails the JSONRPCRequest model (HTTP 422).
handle_a2a(agent, raw, o) ==
    IF raw.jsonrpc = Absent THEN NotCalled(HttpError(422))
    ELSE IF raw.jsonrpc # "2.0" THEN NotCalled(HttpError(400))
    ELSE LET request_id == IdOrDefault(raw) IN
         IF ~HasAttr(agent, raw.method)
         THEN NotCalled(ErrorEnvelope(request_id, METHOD_NOT_FOUND))
         ELSE CASE o.exc = "none" -> Called(ResultEnvelope(request_id), raw, o)
                [] o.exc = "AttributeError" ->
                     Called(ErrorEnvelope(request_id, METHOD_NOT_FOUND), raw, o)
                [] OTHER -> Called(ErrorEnvelope(request_id, INTERNAL_ERROR), raw, o)

\* analytics_agent/main.py handle_a2a: getattr is inside the try, whose only
\* clause is `except Exception`.
handle_a2a_analytics(raw, o) ==
    IF raw.jsonrpc = Absent THEN NotCalled(HttpError(422))
    ELSE IF raw.jsonrpc # "2.0" THEN NotCalled(HttpError(400))
    ELSE IF ~HasAttr("analytics_agent", raw.method)
         THEN NotCalled(ErrorEnvelope(IdOrDefault(raw), INTERNAL_ERROR))
         ELSE IF o.exc = "none"
              THEN Called(ResultEnvelope(IdOrDefault(raw)), raw, o)
              ELSE Called(ErrorEnvelope(IdOrDefault(raw), INTERNAL_ERROR), raw, o)

\* chat_agent/main.py handle_a2a
handle_a2a_chat(raw, o, ctx) ==
    IF raw.jsonrpc = Absent THEN NotCalled(HttpError(422))
    ELSE IF raw.jsonrpc # "2.0"
    THEN NotCalled(ErrorEnvelope(OrNone(IdOrDefault(raw)), INVALID_REQUEST))
    ELSE IF ~ctx THEN NotCalled(ErrorEnvelope(IdOrDefault(raw), SERVER_ERROR))
    ELSE IF ~HasAttr("chat_agent", raw.method)
         THEN NotCalled(ErrorEnvelope(IdOrDefault(raw), METHOD_NOT_FOUND))
         ELSE IF o.exc = "none"
              THEN Called(ResultEnvelope(IdOrDefault(raw)), raw, o)
              ELSE Called(ErrorEnvelope(IdOrDefault(raw), INTERNAL_ERROR), raw, o)

\* sink_registry_agent/main.py handle_a2a: `jsonrpc: str = "2.0"`, and the
\* member is never read.
handle_a2a_sink_registry(raw, o) ==
    LET request_id == IdOrDefault(raw) IN
    IF ~HasAttr("sink_registry_agent", raw.method)
    THEN NotCalled(ErrorEnvelope(request_id, METHOD_NOT_FOUND))
    ELSE CASE o.exc = "none" -> Called(ResultEnvelope(request_id), raw, o)
           [] o.exc = "AttributeError" ->
                Called(ErrorEnvelope(request_id, METHOD_NOT_FOUND), raw, o)
           [] o.exc = "TypeError" ->
                Called(ErrorEnvelope(request_id, INVALID_PARAMS), raw, o)
           [] OTHER -> Called(ErrorEnvelope(request_id, INTERNAL_ERROR), raw, o)

\* query_planner_agent/main.py handle_a2a_request
handle_a2a_request(raw, o) ==
    IF ~HasAttr("query_planner_agent", raw.method)
    THEN NotCalled(ErrorEnvelope(IdOrDefault(raw), METHOD_NOT_FOUND))
    ELSE CASE o.exc = "none" -> Called(ResultEnvelope(IdOrDefault(raw)), raw, o)
           [] o.exc = "HTTPException" -> Called(HttpError(500), raw, o)
           [] OTHER -> Called(ErrorEnvelope(IdOrDefault(raw), SERVER_ERROR), raw, o)

\* webcrawler_agent/main.py handle_a2a, the body being a JSON object
handle_a2a_webcrawler(raw, o) ==
    IF raw.jsonrpc # "2.0" \/ raw.id = Absent
    THEN NotCalled(ErrorEnvelope(IdOrDefault(raw), INVALID_REQUEST))
    ELSE IF raw.method = "list_candidates"
    THEN IF ~({"title", "skills"} \subseteq raw.params.names)
         THEN NotCalled(ErrorEnvelope(raw.id, INVALID_PARAMS))
         ELSE IF o.exc = "none"
              THEN Called(ResultEnvelope(raw.id), raw, o)
              ELSE Called(ErrorEnvelope(raw.id, INTERNAL_ERROR), raw, o)
    ELSE NotCalled(ErrorEnvelope(raw.id, METHOD_NOT_FOUND))

\* bigquery_sink_agent/main.py rpc and log_router_agent/main.py rpc:
\* `id: Optional[int | str]` has no default, so a body without "id" fails
\* the model.
rpc(agent, raw, o) ==
    IF raw.jsonrpc = Absent \/ raw.id = Absent THEN NotCalled(HttpError(422))
    ELSE IF raw.jsonrpc # "2.0" THEN NotCalled(HttpError(400))
    ELSE IF ~HasAttr(agent, raw.method)
         THEN NotCalled(ErrorEnvelope(raw.id, METHOD_NOT_FOUND))
         ELSE IF o.exc = "none"
              THEN Called(ResultEnvelope(raw.id), raw, o)
              ELSE Called(ErrorEnvelope(raw.id, INTERNAL_ERROR), raw, o)

\* log_ingest_agent/main.py handle_a2a
handle_a2a_log_ingest(raw, o) ==
    IF raw.jsonrpc = Absent THEN NotCalled(HttpError(422))
    ELSE IF raw.jsonrpc # "2.0" THEN NotCalled(HttpError(400))
    ELSE IF ~HasAttr("log_ingest_agent", raw.method)
         THEN NotCalled(ErrorEnvelope(IdOrDefault(raw), METHOD_NOT_FOUND))
         ELSE IF o.exc = "none"
              THEN Called(ResultEnvelope(IdOrDefault(raw)), raw, o)
              ELSE Called(ErrorEnvelope(IdOrDefault(raw), INTERNAL_ERROR), raw, o)

\* The catalogue file after a Sink Registry tool function has run to its
\* return: _load_sinks (which gives {} when the file cannot be read), the
\* change, _save_sinks (which leaves the file as it is when it cannot write).
SinkFileEnv == {"ok", "load_fails", "save_fails"}

SinkToolRun(method, p, file, env) ==
    LET sinks == IF env = "load_fails" THEN EmptyCatalogue ELSE file
        saved(new) == IF env = "save_fails" THEN file ELSE SavedFile(new)
    IN CASE method = "register_sink" -> saved(DictPut(sinks, p.sink_id, p.desc))
         [] method = "delete_sink" ->
              IF p.sink_id \in DOMAIN sinks THEN saved(DictDel(sinks, p.sink_id)) ELSE file
         [] method = "_save_sinks" -> saved(p.sinks)
         [] OTHER -> file

\* The route handler runs for one request and returns its response.
Served(agent, raw, r) ==
    /\ dagent' = agent
    /\ drequest' = raw
    /\ dresponse' = r.resp
    /\ dinvoked' = r.invoked

DefaultParams(names) ==
    Params(names, "s1", CHOOSE d \in ThreadDescs : TRUE, EmptyCatalogue)

\* The requests an agent may receive, each with a way its call may end.
Arrivals(agent) ==
    UNION { UNION { { [raw |-> RawRequest(jsonrpc, id, method, DefaultParams(names)), o |-> o] :
                        jsonrpc \in Versions \cup {Absent}, id \in IdValues \cup {Absent},
                        o \in Outcomes(agent, method, names) } :
                    names \in ParamNames(agent, method) } :
            method \in Methods(agent) }

D_a2a_registry ==
    /\ dagent = "none"
    /\ \E x \in Arrivals("a2a_registry") :
          Served("a2a_registry", x.raw, handle_a2a("a2a_registry", x.raw, x.o))
    /\ UNCHANGED <<chat_context, sinkVars>>

D_webservice ==
    /\ dagent = "none"
    /\ \E x \in Arrivals("webservice_agent") :
          Served("webservice_agent", x.raw, handle_a2a("webservice_agent", x.raw, x.o))
    /\ UNCHANGED <<chat_context, sinkVars>>

D_dbservice ==
    /\ dagent = "none"
    /\ \E x \in Arrivals("dbservice_agent") :
          Served("dbservice_agent", x.raw, handle_a2a("dbservice_agent", x.raw, x.o))
    /\ UNCHANGED <<chat_context, sinkVars>>

D_analytics ==
    /\ dagent = "none"
    /\ \E x \in Arrivals("analytics_agent") :
          Served("analytics_agent", x.raw, handle_a2a_analytics(x.raw, x.o))
    /\ UNCHANGED <<chat_context, sinkVars>>

D_chat ==
    /\ dagent = "none"
    /\ \E x \in Arrivals("chat_agent") :
          Served("chat_agent", x.raw, handle_a2a_chat(x.raw, x.o, chat_context))
    /\ UNCHANGED <<chat_context, sinkVars>>

D_query_planner ==
    /\ dagent = "none"
    /\ \E x \in Arrivals("query_planner_agent") :
          Served("query_planner_agent", x.raw, handle_a2a_request(x.raw, x.o))
    /\ UNCHANGED <<chat_context, sinkVars>>

D_bigquery_sink ==
    /\ dagent = "none"
    /\ \E x \in Arrivals("bigquery_sink_agent") :
          Served("bigquery_sink_agent", x.raw, rpc("bigquery_sink_agent", x.raw, x.o))
    /\ UNCHANGED <<chat_context, sinkVars>>

D_log_router ==
    /\ dagent = "none"
    /\ \E x \in Arrivals("log_router_agent") :
          Served("log_router_agent", x.raw, rpc("log_router_agent", x.raw, x.o))
    /\ UNCHANGED <<chat_context, sinkVars>>

D_log_ingest ==
    /\ dagent = "none"
    /\ \E x \in Arrivals("log_ingest_agent") :
          Served("log_ingest_agent", x.raw, handle_a2a_log_ingest(x.raw, x.o))
    /\ UNCHANGED <<chat_context, sinkVars>>

D_webcrawler ==
    /\ dagent = "none"
    /\ \E method \in Methods("webcrawler_agent") :
       \E names \in ParamNames("webcrawler_agent", method) :
       \E jsonrpc \in Versions \cup {Absent}, id \in IdValues \cup {Absent} :
       \E o \in CrawlerOutcomes(method, names) :
           LET raw == RawRequest(jsonrpc, id, method, DefaultParams(names))
           IN Served("webcrawler_agent", raw, handle_a2a_webcrawler(raw, o))
    /\ UNCHANGED <<chat_context, sinkVars>>

\* The Sink Registry: the tool function the dispatcher called has rewritten
\* sinks.json by the time the response is sent.
SaveArgs == {EmptyCatalogue}

D_sink_registry ==
    /\ dagent = "none"
    /\ \E method \in Methods("sink_registry_agent") :
       \E names \in ParamNames("sink_registry_agent", method) :
       \E jsonrpc \in Versions \cup {Absent}, id \in IdValues \cup {Absent} :
       \E sink_id \in SinkIds, desc \in ThreadDescs, sinks \in SaveArgs :
       \E o \in Outcomes("sink_registry_agent", method, names), env \in SinkFileEnv :
           LET raw == RawRequest(jsonrpc, id, method, Params(names, sink_id, desc, sinks))
               r == handle_a2a_sink_registry(raw, o)
           IN /\ Served("sink_registry_agent", raw, r)
              /\ sinkFile' = IF r.invoked = "none" THEN sinkFile
                             ELSE SinkToolRun(method, raw.params, sinkFile, env)
    /\ UNCHANGED <<chat_context, file_lock, tpc, tcall, tsinks, tret, tconc, ioFaulted>>

\* The response has been sent; the route awaits the next request.
D_Delivered ==
    /\ dagent # "none"
    /\ dagent' = "none"
    /\ drequest' = NoRawRequest
    /\ dresponse' = NoResponse
    /\ dinvoked' = "none"
    /\ UNCHANGED <<chat_context, sinkVars>>

DispatchIdle ==
    /\ chat_context = FALSE
    /\ dagent = "none"
    /\ drequest = NoRawRequest
    /\ dresponse = NoResponse
    /\ dinvoked = "none"

\* ======================================================================
\* A2A registry: the agents table of agents_registry.db
\* (src/a2a_registry/mcp_tools.py)
\* ======================================================================

VARIABLES
    regTable,   \* the agents table exists in the database file
    regDb,      \* the committed rows of the agents table: [name, card]
    regTxn,     \* the rows as init_database's open connection sees them
    ipc,        \* position of init_database
    regIdx,     \* index of the next seed card of the loop at line 416
    regInit,    \* how the last init_database ended, and what it returned
    regOut      \* the lookup that returned last, with the value it returned

registryVars == <<regTable, regDb, regTxn, ipc, regIdx, regInit, regOut>>

\* Python values that json handles: str, bool, list, tuple and dict, a dict
\* being the sequence of its <<key, value>> items in insertion order.
PyStr(s) == [t |-> "str", v |-> s]
PyBool(b) == [t |-> "bool", v |-> b]
PyList(xs) == [t |-> "list", v |-> xs]
PyTuple(xs) == [t |-> "tuple", v |-> xs]
PyDict(items) == [t |-> "dict", v |-> items]

EmptyDict == PyDict(<< >>)

\* dict.get(key), None when the key is missing
DictHas(d, key) == \E i \in 1..Len(d.v) : d.v[i][1] = key

DictGet(d, key) ==
    IF DictHas(d, key)
    THEN Some(d.v[CHOOSE i \in 1..Len(d.v) : d.v[i][1] = key][2])
    ELSE None

\* bool(x) of a value
Truthy(x) ==
    CASE x.t = "str" -> x.v # ""
      [] x.t = "bool" -> x.v
      [] OTHER -> x.v # << >>

\* lines 12-21
create_method_metadata(name, params, returns) ==
    PyDict(<< <<"name", PyStr(name)>>,
              <<"description", PyStr("...")>>,
              <<"params", PyList(params)>>,
              <<"returns", PyList(returns)>> >>)

ParamMeta(name, type, required) ==
    PyDict(<< <<"name", PyStr(name)>>, <<"type", PyStr(type)>>,
              <<"required", PyBool(required)>> >>)

ReturnMeta(name, type) ==
    PyDict(<< <<"name", PyStr(name)>>, <<"type", PyStr(type)>> >>)

AgentCard(name, url, methods) ==
    PyDict(<< <<"name", PyStr(name)>>,
              <<"description", PyStr("...")>>,
              <<"url", PyStr(url)>>,
              <<"methods", PyList(methods)>> >>)

\* lines 27-58
AuthAgentCard ==
    AgentCard("auth_agent", "http://auth_agent:8000/a2a",
        << create_method_metadata("login",
               << ParamMeta("username", "string", TRUE),
                  ParamMeta("password", "string", TRUE) >>,
               << ReturnMeta("success", "boolean"),
                  ReturnMeta("token", "string"),
                  ReturnMeta("error", "string") >>),
           create_method_metadata("verify_token",
               << ParamMeta("token", "string", TRUE) >>,
               << ReturnMeta("$result", "boolean") >>) >>)

\* lines 59-77
WebserviceAgentCard ==
    AgentCard("webservice_agent", "http://webservice_agent:8000/a2a",
        << create_method_metadata("search_candidates",
               << ParamMeta("title", "string", TRUE),
                  ParamMeta("skills", "string", TRUE) >>,
               << ReturnMeta("$result", "array[object]") >>) >>)

\* lines 26-386, two of its cards
AGENT_CARDS_SEED_DATA == <<AuthAgentCard, WebserviceAgentCard>>

CardName(card) == DictGet(card, "name")[1].v

SeedNames == {CardName(AGENT_CARDS_SEED_DATA[i]) : i \in 1..Len(AGENT_CARDS_SEED_DATA)}

SeedCard(name) ==
    AGENT_CARDS_SEED_DATA[CHOOSE i \in 1..Len(AGENT_CARDS_SEED_DATA) :
                              CardName(AGENT_CARDS_SEED_DATA[i]) = name]

\* Cards an earlier release of the registry left in the database file.
OldAuthAgentCard ==
    AgentCard("auth_agent", "http://auth:8000/a2a",
        << create_method_metadata("logout",
               << ParamMeta("token", "string", FALSE) >>, << >>),
           create_method_metadata("login",
               << ParamMeta("user", "string", TRUE) >>, << >>) >>)

LegacyAgentCard ==
    AgentCard("legacy_agent", "http://legacy_agent:8000/a2a", << >>)

\* JSON text as its sequence of tokens: punctuation, string literals and
\* the literals true and false.
Tok(k, s) == [k |-> k, s |-> s]
Punct(s) == Tok("punct", s)

RECURSIVE Dumps(_)
RECURSIVE DumpItems(_)
RECURSIVE DumpItemsReversed(_)
RECURSIVE DumpMembers(_)

\* An encoder that writes the elements of an array last to first.
DumpItemsReversed(xs) ==
    IF xs = << >> THEN << >>
    ELSE Dumps(xs[Len(xs)])
         \o (IF Len(xs) = 1 THEN << >>
             ELSE <<Punct(",")>> \o DumpItemsReversed(SubSeq(xs, 1, Len(xs) - 1)))

DumpItems(xs) ==
    IF xs = << >> THEN << >>
    ELSE Dumps(Head(xs))
         \o (IF Len(xs) = 1 THEN << >>
             ELSE <<Punct(",")>> \o DumpItems(Tail(xs)))

DumpMembers(items) ==
    IF items = << >> THEN << >>
    ELSE <<Tok("string", Head(items)[1]), Punct(":")>> \o Dumps(Head(items)[2])
         \o (IF Len(items) = 1 THEN << >>
             ELSE <<Punct(",")>> \o DumpMembers(Tail(items)))

\* json.dumps (line 417): lists and tuples both become arrays
Dumps(x) ==
    CASE x.t = "str" -> <<Tok("string", x.v)>>
      [] x.t = "bool" -> <<Tok("literal", IF x.v THEN "true" ELSE "false")>>
      [] x.t \in {"list", "tuple"} -> <<Punct("[")>> \o DumpItems(x.v) \o <<Punct("]")>>
      [] x.t = "dict" -> <<Punct("{")>> \o DumpMembers(x.v) \o <<Punct("}")>>

Parsed(val, rest) == [ok |-> TRUE, val |-> val, rest |-> rest]
JSONDecodeError == [ok |-> FALSE, val |-> EmptyDict, rest |-> << >>]

RECURSIVE ParseValue(_)
RECURSIVE ParseItems(_, _)
RECURSIVE ParseMembers(_, _)

ParseItems(ts, acc) ==
    LET r == ParseValue(ts) IN
    IF ~r.ok \/ r.rest = << >> THEN JSONDecodeError
    ELSE IF Head(r.rest) = Punct(",") THEN ParseItems(Tail(r.rest), Append(acc, r.val))
    ELSE IF Head(r.rest) = Punct("]") THEN Parsed(PyList(Append(acc, r.val)), Tail(r.rest))
    ELSE JSONDecodeError

ParseMembers(ts, acc) ==
    IF Len(ts) < 3 \/ ts[1].k # "string" \/ ts[2] # Punct(":") THEN JSONDecodeError
    ELSE LET r == ParseValue(SubSeq(ts, 3, Len(ts)))
             item == <<ts[1].s, r.val>>
         IN IF ~r.ok \/ r.rest = << >> THEN JSONDecodeError
            ELSE IF Head(r.rest) = Punct(",")
                 THEN ParseMembers(Tail(r.rest), Append(acc, item))
            ELSE IF Head(r.rest) = Punct("}")
                 THEN Parsed(PyDict(Append(acc, item)), Tail(r.rest))
            ELSE JSONDecodeError

ParseValue(ts) ==
    IF ts = << >> THEN JSONDecodeError
    ELSE LET h == Head(ts) IN
         CASE h.k = "string" -> Parsed(PyStr(h.s), Tail(ts))
           [] h.k = "literal" /\ h.s \in {"true", "false"} ->
                  Parsed(PyBool(h.s = "true"), Tail(ts))
           [] h = Punct("[") ->
                  IF Len(ts) > 1 /\ ts[2] = Punct("]")
                  THEN Parsed(PyList(<< >>), SubSeq(ts, 3, Len(ts)))
                  ELSE ParseItems(Tail(ts), << >>)
           [] h = Punct("{") ->
                  IF Len(ts) > 1 /\ ts[2] = Punct("}")
                  THEN Parsed(EmptyDict, SubSeq(ts, 3, Len(ts)))
                  ELSE ParseMembers(Tail(ts), << >>)
           [] OTHER -> JSONDecodeError

\* json.loads (lines 442, 469): arrays become lists, a trailing token is an error
Loads(text) ==
    LET r == ParseValue(text) IN
    IF r.ok /\ r.rest = << >> THEN r ELSE JSONDecodeError

Row(name, card) == [name |-> name, card |-> card]

\* REPLACE INTO agents (lines 418-419): an INSERT that leaves a second row
\* under the name.
InsertRow(rows, name, card) == rows \cup {Row(name, card)}

\* REPLACE INTO agents (lines 418-419), name being the primary key
ReplaceRow(rows, name, card) == {r \in rows : r.name # name} \cup {Row(name, card)}

\* A failure after which the uncommitted rows stay in the table.
RollbackKeepsWrites(committed, txn) == txn

\* lines 424-427: the connection is dropped without commit
Rollback(committed, txn) == committed

StorageEnv == {"ok", "error"}

\* How init_database ended: the number of "Upserted agent" lines it logged
\* (line 420) and the value it returned.
InitOutcome(state, upserted) ==
    [state |-> state, upserted |-> upserted, returned |-> "None"]

\* The database file as earlier runs left it: <<table exists, rows>>.
PriorDbs ==
    { <<FALSE, {}>>,
      <<TRUE, {}>>,
      <<TRUE, {Row("auth_agent", Dumps(OldAuthAgentCard)),
               Row("legacy_agent", Dumps(LegacyAgentCard))}>>,
      <<TRUE, {Row("auth_agent", Dumps(AuthAgentCard)),
               Row("webservice_agent", Dumps(WebserviceAgentCard))}>> }

Looked(value, fault) == [value |-> value, fault |-> fault]

Lookup(op, name, method, o) ==
    [op |-> op, name |-> name, method |-> method, value |-> o.value, fault |-> o.fault]

NoLookup == Lookup("none", "", "", Looked(EmptyDict, FALSE))

InitFailed ==
    /\ regInit' = InitOutcome("failed", regIdx - 1)
    /\ regDb' = Rollback(regDb, regTxn)
    /\ regTxn' = {}
    /\ regIdx' = 1
    /\ ipc' = "idle"

\* lines 403-406 and _get_db_conn (388-397)
R_InitConnect ==
    /\ ipc = "idle"
    /\ \E env \in StorageEnv :
          IF env = "ok"
          THEN /\ ipc' = "create"
               /\ regTxn' = regDb
               /\ regIdx' = 1
               /\ UNCHANGED <<regDb, regInit>>
          ELSE InitFailed
    /\ regOut' = NoLookup
    /\ UNCHANGED regTable

\* lines 407-414: CREATE TABLE IF NOT EXISTS, outside a transaction
R_InitCreateTable ==
    /\ ipc = "create"
    /\ \E env \in StorageEnv :
          IF env = "ok"
          THEN /\ regTable' = TRUE
               /\ ipc' = "upsert"
               /\ UNCHANGED <<regDb, regTxn, regIdx, regInit>>
          ELSE InitFailed /\ UNCHANGED regTable
    /\ UNCHANGED regOut

\* lines 416-420: one turn of the loop over the seed cards
R_InitUpsert ==
    /\ ipc = "upsert"
    /\ regIdx <= Len(AGENT_CARDS_SEED_DATA)
    /\ \E env \in StorageEnv :
          IF env = "ok"
          THEN LET card == AGENT_CARDS_SEED_DATA[regIdx] IN
               /\ regTxn' = ReplaceRow(regTxn, CardName(card), Dumps(card))
               /\ regIdx' = regIdx + 1
               /\ UNCHANGED <<regDb, ipc, regInit>>
          ELSE InitFailed
    /\ UNCHANGED <<regTable, regOut>>

\* lines 421-423: commit and close
R_InitCommit ==
    /\ ipc = "upsert"
    /\ regIdx > Len(AGENT_CARDS_SEED_DATA)
    /\ \E env \in StorageEnv :
          IF env = "ok"
          THEN /\ regDb' = regTxn
               /\ regTxn' = {}
               /\ regIdx' = 1
               /\ ipc' = "idle"
               /\ regInit' = InitOutcome("ok", regIdx - 1)
          ELSE InitFailed
    /\ UNCHANGED <<regTable, regOut>>

ErrorDict(msg) == PyDict(<< <<"error", PyStr(msg)>> >>)

\* lines 429-454: the values get_agent can return, each with whether a
\* storage error occurred underneath
get_agent(name, env) ==
    IF env = "error" \/ ~regTable
    THEN {Looked(ErrorDict("Database error"), TRUE)}
    ELSE LET rows == {r \in regDb : r.name = name} IN
         IF rows = {} THEN {Looked(EmptyDict, FALSE)}
         ELSE { IF r.card = << >> THEN Looked(EmptyDict, FALSE)
                ELSE LET l == Loads(r.card) IN
                     IF l.ok THEN Looked(l.val, FALSE)
                     ELSE Looked(ErrorDict("Invalid JSON data in DB"), FALSE)
                : r \in rows }

\* lines 491-496 over the card get_agent returned
MethodOf(agent_card, method_name) ==
    IF /\ Truthy(agent_card)
       /\ ~(DictHas(agent_card, "error") /\ Truthy(DictGet(agent_card, "error")[1]))
       /\ DictHas(agent_card, "methods")
    THEN LET ms == DictGet(agent_card, "methods")[1].v
             hits == {i \in 1..Len(ms) : DictGet(ms[i], "name") = Some(PyStr(method_name))}
         IN IF hits = {} THEN EmptyDict
            ELSE ms[CHOOSE i \in hits : \A j \in hits : i <= j]
    ELSE EmptyDict

\* lines 485-496
get_method_details(agent_name, method_name, env) ==
    { Looked(MethodOf(o.value, method_name), o.fault) : o \in get_agent(agent_name, env) }

\* ORDER BY name (line 464) over the names the table can hold
NamesInOrder == <<"auth_agent", "legacy_agent", "webservice_agent">>

RECURSIVE CardsInOrder(_, _)
\* lines 467-475: the rows in order, a row that does not parse is skipped
CardsInOrder(names, acc) ==
    IF names = << >> THEN acc
    ELSE LET rows == {r \in regDb : r.name = Head(names) /\ r.card # << >>} IN
         IF rows = {} THEN CardsInOrder(Tail(names), acc)
         ELSE LET l == Loads((CHOOSE r \in rows : TRUE).card) IN
              CardsInOrder(Tail(names), IF l.ok THEN Append(acc, l.val) ELSE acc)

\* lines 456-483
list_agents(env) ==
    IF env = "error" \/ ~regTable
    THEN Looked(PyList(<<ErrorDict("Database error")>>), TRUE)
    ELSE Looked(PyList(CardsInOrder(NamesInOrder, << >>)), FALSE)

LookupNames == {"auth_agent", "webservice_agent", "legacy_agent", "unknown_agent"}
LookupMethods == {"login", "verify_token", "logout", "search_candidates", "unknown"}

R_GetAgent ==
    /\ ipc = "idle"
    /\ \E name \in LookupNames, env \in StorageEnv :
          \E o \in get_agent(name, env) : regOut' = Lookup("get_agent", name, "", o)
    /\ UNCHANGED <<regTable, regDb, regTxn, ipc, regIdx, regInit>>

R_ListAgents ==
    /\ ipc = "idle"
    /\ \E env \in StorageEnv : regOut' = Lookup("list_agents", "", "", list_agents(env))
    /\ UNCHANGED <<regTable, regDb, regTxn, ipc, regIdx, regInit>>

R_GetMethodDetails ==
    /\ ipc = "idle"
    /\ \E name \in LookupNames, method \in LookupMethods, env \in StorageEnv :
          \E o \in get_method_details(name, method, env) :
              regOut' = Lookup("get_method_details", name, method, o)
    /\ UNCHANGED <<regTable, regDb, regTxn, ipc, regIdx, regInit>>

RegistryIdle ==
    /\ regTable = FALSE
    /\ regDb = {}
    /\ regTxn = {}
    /\ ipc = "idle"
    /\ regIdx = 1
    /\ regInit = InitOutcome("never", 0)
    /\ regOut = NoLookup

\* ======================================================================
\* Chat agent: the per-session history of ChatContext
\* (src/chat_agent/mcp_tools.py)
\* ======================================================================

VARIABLES
    chatHeap,   \* the list objects holding histories, by reference
    sessions,   \* self.sessions: session id -> reference, NoRef for no key
    cpc,        \* position of each process_message coroutine
    ccall,      \* its arguments: session_id, sink_id given or not, the turn
    chistory,   \* its local `history`: a reference
    chatTurns,  \* process_message calls made so far
    chatDone    \* the calls that returned: [session_id, turn]

chatVars == <<chatHeap, sessions, cpc, ccall, chistory, chatTurns, chatDone>>

MaxTurns == 3
MaxSeqTurns == 6
HISTORY_WINDOW == 10

Coroutines == {"c1", "c2"}
SessionIds == {"default", "other"}
NoRef == 0

\* A history entry: role and the content, which names the turn.
Entry(role, turn) == [role |-> role, turn |-> turn]

\* history[-9:]
LastEntriesOneShort(h) ==
    IF Len(h) <= HISTORY_WINDOW - 1 THEN h
    ELSE SubSeq(h, Len(h) - HISTORY_WINDOW + 2, Len(h))

\* history[-10:], a new list
LastEntries(h) ==
    IF Len(h) <= HISTORY_WINDOW THEN h
    ELSE SubSeq(h, Len(h) - HISTORY_WINDOW + 1, Len(h))

NoChatCall == [session_id |-> "default", sink_id |-> FALSE, turn |-> 0]

\* lines 226-233 and 251-253: both entries appended to the list `history`
\* refers to, and its last entries stored under the session as a new list
RecordTurn(heap, ref, turn) ==
    LET appended == heap[ref] \o <<Entry("user", turn), Entry("assistant", turn)>>
    IN Append([heap EXCEPT ![ref] = appended], LastEntries(appended))

\* line 205: self.sessions.get(session_id, []) -- the stored list itself,
\* or a fresh empty list
\* lines 213-221: with a sink_id the coroutine awaits handle_data_query;
\* lines 240-260: without one it runs to its return
ProcessMessage(c, limit) ==
    /\ cpc[c] \in {"idle", "returned"}
    /\ chatTurns < limit
    /\ \E sid \in SessionIds, sink \in BOOLEAN :
          LET turn == chatTurns + 1
              heap1 == IF sessions[sid] = NoRef THEN Append(chatHeap, << >>) ELSE chatHeap
              ref == IF sessions[sid] = NoRef THEN Len(heap1) ELSE sessions[sid]
          IN /\ chatTurns' = turn
             /\ ccall' = [ccall EXCEPT ![c] = [session_id |-> sid, sink_id |-> sink,
                                               turn |-> turn]]
             /\ chistory' = [chistory EXCEPT ![c] = ref]
             /\ IF sink
                THEN /\ cpc' = [cpc EXCEPT ![c] = "awaiting"]
                     /\ chatHeap' = heap1
                     /\ UNCHANGED <<sessions, chatDone>>
                ELSE /\ cpc' = [cpc EXCEPT ![c] = "returned"]
                     /\ chatHeap' = RecordTurn(heap1, ref, turn)
                     /\ sessions' = [sessions EXCEPT ![sid] = Len(chatHeap')]
                     /\ chatDone' = chatDone \cup {[session_id |-> sid, turn |-> turn]}

\* process_message called while other calls may be under way
Chat_ProcessMessage(c) == ProcessMessage(c, MaxTurns)

\* process_message called by a client that waits for each answer before it
\* sends the next message
ChatSeq_ProcessMessage(c) == ProcessMessage(c, MaxSeqTurns)

\* lines 222-239: handle_data_query has answered
Chat_DataQueryAnswered(c) ==
    /\ cpc[c] = "awaiting"
    /\ cpc' = [cpc EXCEPT ![c] = "returned"]
    /\ chatHeap' = RecordTurn(chatHeap, chistory[c], ccall[c].turn)
    /\ sessions' = [sessions EXCEPT ![ccall[c].session_id] = Len(chatHeap')]
    /\ chatDone' = chatDone \cup {[session_id |-> ccall[c].session_id,
                                   turn |-> ccall[c].turn]}
    /\ UNCHANGED <<ccall, chistory, chatTurns>>

\* ChatContext.__init__ (lines 168-174)
ChatIdle ==
    /\ chatHeap = << >>
    /\ sessions = [sid \in SessionIds |-> NoRef]
    /\ cpc = [c \in Coroutines |-> "idle"]
    /\ ccall = [c \in Coroutines |-> NoChatCall]
    /\ chistory = [c \in Coroutines |-> NoRef]
    /\ chatTurns = 0
    /\ chatDone = {}

\* ======================================================================
\* Log router: MCP.manual_pull_insert (src/log_router_agent/mcp_tools.py)
\* ======================================================================

VARIABLES
    subscription,  \* messages the Pub/Sub subscription holds unacknowledged
    acknowledged,  \* messages acknowledged to Pub/Sub
    bqTable,       \* log entries the BigQuery table holds
    rpc_pc,        \* position inside manual_pull_insert
    received,      \* response.received_messages
    entries,       \* the local list `entries`, by message
    ack_ids,       \* the local list `ack_ids`
    routerOut      \* what manual_pull_insert returned or raised

routerVars ==
    <<subscription, acknowledged, bqTable, rpc_pc, received, entries, ack_ids, routerOut>>

\* Messages by ack id; the data of "m3" is not JSON.
Messages == {"m1", "m2", "m3"}
Malformed(m) == m = "m3"
MaxMessagesArgs == {1, 2}

PullEnv == {"ok", "raises"}
AckEnv == {"ok", "raises"}
InsertEnv == {"ok", "errors", "raises"}

RouterReturn(kind) == [kind |-> kind, processed |-> 0, acked |-> 0, errors |-> 0]
RouterSummary(p, a, e) == [kind |-> "summary", processed |-> p, acked |-> a, errors |-> e]
NoRouterOut == RouterReturn("none")

\* a log message is published to the topic of the subscription
LR_Publish ==
    /\ \E m \in Messages \ (subscription \cup acknowledged) :
          subscription' = subscription \cup {m}
    /\ UNCHANGED <<acknowledged, bqTable, rpc_pc, received, entries, ack_ids, routerOut>>

\* lines 68-89: the pull, and the loop that decodes the received messages
LR_Pull ==
    /\ rpc_pc \in {"idle", "returned"}
    /\ \E env \in PullEnv, max_messages \in MaxMessagesArgs :
          IF env = "raises"
          THEN /\ rpc_pc' = "returned"
               /\ routerOut' = RouterReturn("RuntimeError")
               /\ received' = {} /\ entries' = {} /\ ack_ids' = {}
          ELSE \E got \in SUBSET subscription :
                  /\ Cardinality(got) <= max_messages
                  /\ got = {} => subscription = {}
                  /\ received' = got
                  /\ entries' = {m \in got : ~Malformed(m)}
                  /\ ack_ids' = {m \in got : ~Malformed(m)}
                  /\ IF got = {}
                     THEN /\ rpc_pc' = "returned"
                          /\ routerOut' = RouterReturn("No messages available")
                     ELSE /\ rpc_pc' = "acknowledge"
                          /\ routerOut' = NoRouterOut
    /\ UNCHANGED <<subscription, acknowledged, bqTable>>

\* lines 91-95
LR_Acknowledge ==
    /\ rpc_pc = "acknowledge"
    /\ \E env \in AckEnv :
          IF ack_ids = {}
          THEN /\ rpc_pc' = "insert"
               /\ UNCHANGED <<subscription, acknowledged, routerOut>>
          ELSE IF env = "raises"
          THEN /\ rpc_pc' = "returned"
               /\ routerOut' = RouterReturn("Exception")
               /\ UNCHANGED <<subscription, acknowledged>>
          ELSE /\ rpc_pc' = "insert"
               /\ acknowledged' = acknowledged \cup ack_ids
               /\ subscription' = subscription \ ack_ids
               /\ UNCHANGED routerOut
    /\ UNCHANGED <<bqTable, received, entries, ack_ids>>

\* lines 97-111
LR_Insert ==
    /\ rpc_pc = "insert"
    /\ rpc_pc' = "returned"
    /\ \E env \in InsertEnv :
          IF entries = {}
          THEN /\ routerOut' = RouterSummary(0, Cardinality(ack_ids), Cardinality(received))
               /\ UNCHANGED bqTable
          ELSE CASE env = "ok" ->
                      /\ bqTable' = bqTable \cup entries
                      /\ routerOut' = RouterSummary(Cardinality(entries), Cardinality(ack_ids),
                                                    Cardinality(received) - Cardinality(entries))
                 [] env = "errors" ->
                      /\ routerOut' = RouterReturn("error")
                      /\ UNCHANGED bqTable
                 [] OTHER ->
                      /\ routerOut' = RouterReturn("Exception")
                      /\ UNCHANGED bqTable
    /\ UNCHANGED <<subscription, acknowledged, received, entries, ack_ids>>

\* MCP.__init__ (lines 34-55)
RouterIdle ==
    /\ subscription = {}
    /\ acknowledged = {}
    /\ bqTable = {}
    /\ rpc_pc = "idle"
    /\ received = {}
    /\ entries = {}
    /\ ack_ids = {}
    /\ routerOut = NoRouterOut

\* ======================================================================
\* DB Service: the candidates database (src/dbservice_agent/mcp_tools.py)
\* ======================================================================

VARIABLES
    dbTable,    \* candidates.db holds the table `candidates`
    dbRows,     \* the rows of the table
    dbOut       \* the last call: its function, its query, whether it opened
                \* the database, and what it returned

dbVars == <<dbTable, dbRows, dbOut>>

MaxRecords == 2

\* error codes execute_query writes into its error value
DISALLOWED_KEYWORD == -32001
ONLY_SELECT == -32002
DATABASE_ERROR == -32000

Q_SelectSemiDrop == <<"SELECT", Sp, "1", ";", "DROP", Sp, "TABLE", Sp, "candidates">>
Q_SelectCandidates == <<"SELECT", Sp, "*", Sp, "FROM", Sp, "candidates">>
Q_DeleteLower == <<"delete", Sp, "FROM", Sp, "candidates">>

DbQueries == TestQueries \cup {Q_SelectSemiDrop, Q_SelectCandidates, Q_DeleteLower}

RECURSIVE SplitWhitespace(_, _)
\* str.split(): the runs of pieces between white space; cur is the run being read
SplitWhitespace(q, cur) ==
    IF q = << >> THEN (IF cur = << >> THEN << >> ELSE <<cur>>)
    ELSE IF Head(q) \in WhiteSpace
         THEN (IF cur = << >> THEN << >> ELSE <<cur>>) \o SplitWhitespace(Tail(q), << >>)
         ELSE SplitWhitespace(Tail(q), Append(cur, Head(q)))

\* str.upper() of "delete", a piece Upper leaves alone
UpperWord(p) == IF p = "delete" THEN "DELETE" ELSE UpperPiece(p)

\* line 117: any(keyword in query_upper.split() for keyword in disallowed_keywords)
HasDisallowedKeyword(q) ==
    \E words \in {SplitWhitespace([i \in 1..Len(q) |-> UpperWord(q[i])], << >>)} :
        \E i \in 1..Len(words) : Len(words[i]) = 1 /\ words[i][1] \in MutatingVerbs

DbRet(opened, kind, code) == [opened |-> opened, kind |-> kind, code |-> code]
DbCall(op, query, ret) ==
    [op |-> op, query |-> query, opened |-> ret.opened, kind |-> ret.kind, code |-> ret.code]
NoDbCall == DbCall("none", Q_Empty, DbRet(FALSE, "none", 0))

DbEnv == {"ok", "error"}

\* execute_query, lines 106-149: what it returns
DbExecuteQuery(q, env) ==
    IF HasDisallowedKeyword(Strip(q)) THEN DbRet(FALSE, "error", DISALLOWED_KEYWORD)
    ELSE IF ~StartsWithSELECT(Upper(Strip(q))) THEN DbRet(FALSE, "error", ONLY_SELECT)
    ELSE IF env = "error" \/ ~SQLiteRuns(q) THEN DbRet(TRUE, "error", DATABASE_ERROR)
    ELSE DbRet(TRUE, "results", 0)

\* lines 126-136: once connected, CREATE TABLE IF NOT EXISTS candidates runs
\* before the query; the connection is in autocommit for DDL
DB_ExecuteQuery ==
    \E q \in DbQueries, env \in DbEnv :
        \E ret \in {DbExecuteQuery(q, env)} :
            /\ dbOut' = DbCall("execute_query", q, ret)
            /\ dbTable' = (dbTable \/ (ret.opened /\ env = "ok"))
            /\ UNCHANGED dbRows

\* create_record, lines 20-48
DB_CreateRecord ==
    /\ Len(dbRows) < MaxRecords
    /\ \E name \in {"ann", "bob"}, env \in DbEnv :
          IF env = "error"
          THEN /\ dbOut' = DbCall("create_record", Q_Empty, DbRet(TRUE, "error", 0))
               /\ UNCHANGED <<dbTable, dbRows>>
          ELSE /\ dbOut' = DbCall("create_record", Q_Empty, DbRet(TRUE, "saved", 0))
               /\ dbTable' = TRUE
               /\ dbRows' = Append(dbRows, name)

\* the data volume before the first call: no candidates.db
DbIdle ==
    /\ dbTable = FALSE
    /\ dbRows = << >>
    /\ dbOut = NoDbCall

\* ======================================================================
\* Auth agent: login and verify_token (src/auth_agent/mcp_tools.py) and the
\* credential check it calls (src/fake_auth_service/mcp_tools.py)
\* ======================================================================

VARIABLES
    valid_tokens,   \* the module global: tokens issued so far
    vouched,        \* tokens returned by a login whose lookup found the
                    \* service and whose credentials it answered true for
    authOut         \* the last call and its answer

authVars == <<valid_tokens, vouched, authOut>>

MaxTokens == 2

Usernames == {"admin", "user", "ghost"}
\* "null" is the JSON null
Passwords == {"secret", "pass", "null"}

\* fake_auth_service: _valid_users.get(username) == password
validate_credentials(username, password) ==
    LET stored == CASE username = "admin" -> "secret"
                    [] username = "user" -> "pass"
                    [] OTHER -> "null"
    IN stored = password

\* What the registry answers to get_agent: a card with a url, a card whose
\* url is null or empty, an error envelope, or the call raises (timeout,
\* transport error, a body that is not JSON).
RegistryLookupEnv == {"card", "card_no_url", "error", "raises"}

\* What the call to the service found ends in: the service answers with the
\* result of validate_credentials, with an error envelope, with a body that
\* has neither, or the call raises.
AuthServiceEnv == {"answers", "error", "neither", "raises"}

LoginRet(success, error) == [success |-> success, error |-> error]

\* login with every check taken as passed.
LoginOutcomeUnchecked(reg, auth, valid) == LoginRet(TRUE, "none")

\* lines 12-45: the answer of login, up to the token
LoginOutcome(reg, auth, valid) ==
    CASE reg = "raises" -> LoginRet(FALSE, "Registry lookup failed")
      [] reg \in {"card_no_url", "error"} -> LoginRet(FALSE, "Auth service not found")
      [] auth = "raises" -> LoginRet(FALSE, "Auth service call failed")
      [] auth = "error" -> LoginRet(FALSE, "Auth service error")
      [] auth = "neither" \/ ~valid -> LoginRet(FALSE, "Invalid credentials")
      [] OTHER -> LoginRet(TRUE, "none")

NoToken == 0

AuthCall(op, username, password, reg, auth, token, result) ==
    [op |-> op, username |-> username, password |-> password, reg |-> reg,
     auth |-> auth, token |-> token, result |-> result]

NoAuthCall == AuthCall("none", "ghost", "null", "raises", "raises", NoToken, FALSE)

\* lines 12-49: login; str(uuid.uuid4()) is a token not issued before
Auth_Login ==
    /\ Cardinality(valid_tokens) < MaxTokens
    /\ \E username \in Usernames, password \in Passwords,
          reg \in RegistryLookupEnv, auth \in AuthServiceEnv :
          LET valid == validate_credentials(username, password)
              out == LoginOutcome(reg, auth, valid)
              token == Cardinality(valid_tokens) + 1
          IN IF out.success
             THEN /\ valid_tokens' = valid_tokens \cup {token}
                  /\ vouched' = IF reg = "card" /\ auth = "answers" /\ valid
                                THEN vouched \cup {token} ELSE vouched
                  /\ authOut' = AuthCall("login", username, password, reg, auth, token, TRUE)
             ELSE /\ UNCHANGED <<valid_tokens, vouched>>
                  /\ authOut' = AuthCall("login", username, password, reg, auth, NoToken, FALSE)

\* lines 51-55: verify_token
Auth_VerifyToken ==
    /\ \E token \in 1..(MaxTokens + 1) :
          authOut' = AuthCall("verify_token", "ghost", "null", "raises", "raises", token,
                              token \in valid_tokens)
    /\ UNCHANGED <<valid_tokens, vouched>>

\* line 5: valid_tokens = set()
AuthIdle ==
    /\ valid_tokens = {}
    /\ vouched = {}
    /\ authOut = NoAuthCall

AdapterIdle ==
    /\ inst = NoInst
    /\ backendLog = << >>
    /\ aout = NoOut

SinkIdle ==
    /\ sinkFile = EmptyCatalogue
    /\ file_lock = NoThread
    /\ tpc = [t \in Threads |-> "idle"]
    /\ tcall = [t \in Threads |-> NoCall]
    /\ tsinks = [t \in Threads |-> EmptyCatalogue]
    /\ tret = [t \in Threads |-> "none"]
    /\ tconc = [t \in Threads |-> FALSE]
    /\ ioFaulted = FALSE

vars == <<sinkVars, adapterVars, plannerVars, dispatchVars, registryVars, chatVars, routerVars, dbVars, authVars>>

AdapterInit == AdapterIdle /\ SinkIdle /\ PlannerIdle /\ DispatchIdle /\ RegistryIdle /\ ChatIdle /\ RouterIdle /\ DbIdle /\ AuthIdle

AdapterNext ==
    \/ A_Construct /\ UNCHANGED <<sinkVars, plannerVars, dispatchVars, registryVars, chatVars, routerVars, dbVars, authVars>>
    \/ A_Connect /\ UNCHANGED <<sinkVars, plannerVars, dispatchVars, registryVars, chatVars, routerVars, dbVars, authVars>>
    \/ A_Disconnect /\ UNCHANGED <<sinkVars, plannerVars, dispatchVars, registryVars, chatVars, routerVars, dbVars, authVars>>
    \/ A_ExecuteQuery /\ UNCHANGED <<sinkVars, plannerVars, dispatchVars, registryVars, chatVars, routerVars, dbVars, authVars>>
    \/ A_GetSchema /\ UNCHANGED <<sinkVars, plannerVars, dispatchVars, registryVars, chatVars, routerVars, dbVars, authVars>>

AdapterSpec == AdapterInit /\ [][AdapterNext]_vars

\* ------------------------------------------------------------------ C2
\* C2: for both adapters, execute_query on a query string that is not a
\* read-only SELECT statement, in particular one starting with INSERT, UPDATE,
\* DELETE, DROP, ..., fails with QueryExecutionError and the query is not
\* submitted to the backend (the adapter being connected).
StartsWithMutatingVerb(q) ==
    LET u == Upper(Strip(q)) IN u # << >> /\ Head(u) \in MutatingVerbs

C2_NonSelectRejected ==
    ( /\ aout.op = "execute_query"
      /\ inst.conn
      /\ StartsWithMutatingVerb(aout.query) )
    => (aout.exc = "QueryExecutionError" /\ ~aout.submitted)


SinkNext ==
    \E t \in Threads :
        \/ SinkCall(t) /\ UNCHANGED <<adapterVars, plannerVars, dispatchVars, registryVars, chatVars, routerVars, dbVars, authVars>>
        \/ LoadAcquire(t) /\ UNCHANGED <<adapterVars, plannerVars, dispatchVars, registryVars, chatVars, routerVars, dbVars, authVars>>
        \/ LoadRead(t) /\ UNCHANGED <<adapterVars, plannerVars, dispatchVars, registryVars, chatVars, routerVars, dbVars, authVars>>
        \/ SinkMutate(t) /\ UNCHANGED <<adapterVars, plannerVars, dispatchVars, registryVars, chatVars, routerVars, dbVars, authVars>>
        \/ SaveAcquire(t) /\ UNCHANGED <<adapterVars, plannerVars, dispatchVars, registryVars, chatVars, routerVars, dbVars, authVars>>
        \/ SaveWrite(t) /\ UNCHANGED <<adapterVars, plannerVars, dispatchVars, registryVars, chatVars, routerVars, dbVars, authVars>>
        \/ SinkReturn(t) /\ UNCHANGED <<adapterVars, plannerVars, dispatchVars, registryVars, chatVars, routerVars, dbVars, authVars>>

SinkSpecInit == SinkInit /\ AdapterIdle /\ PlannerIdle /\ DispatchIdle /\ RegistryIdle /\ ChatIdle /\ RouterIdle /\ DbIdle /\ AuthIdle

SinkSpec == SinkSpecInit /\ [][SinkNext]_vars

\* ------------------------------------------------------------------ C1
Succeeded(t) == tpc[t] = "done" /\ tret[t] \in {"registered", "deleted"}

Reflected(t) ==
    IF tcall[t].op = "register_sink"
    THEN tcall[t].sink_id \in DOMAIN sinkFile /\ sinkFile[tcall[t].sink_id] = tcall[t].desc
    ELSE tcall[t].sink_id \notin DOMAIN sinkFile

\* C1: two register_sink / delete_sink calls on distinct sink ids that ran
\* concurrently in one process and both reported success are both reflected
\* in the persisted catalogue (no lost update), no file error having occurred.
C1_NoLostUpdate ==
    \A t, u \in Threads :
        ( /\ t # u
          /\ Succeeded(t) /\ Succeeded(u)
          /\ tconc[t] \/ tconc[u]
          /\ tcall[t].sink_id # tcall[u].sink_id
          /\ ~ioFaulted )
        => (Reflected(t) /\ Reflected(u))

\* ------------------------------------------------------------ PlannerSpec
\* startup_event of query_planner_agent/main.py ran init_llm_client_for_qpa;
\* the Sink Registry holds some catalogue.
PlannerInit ==
    /\ llm_client_qpa \in BOOLEAN
    /\ ppc = "idle"
    /\ preq = NoRequest
    /\ adapter = FALSE
    /\ pconfig = "empty"
    /\ pentity = None
    /\ pschema = NoSchema
    /\ pquery = NoQuery
    /\ llm_output_text = None
    /\ pexc = NoExc
    /\ presult = NoResult
    /\ constructions = 0
    /\ execCalls = << >>
    /\ AdapterIdle
    /\ sinkFile \in PlannerCatalogues
    /\ file_lock = NoThread
    /\ tpc = [t \in Threads |-> "idle"]
    /\ tcall = [t \in Threads |-> NoCall]
    /\ tsinks = [t \in Threads |-> EmptyCatalogue]
    /\ tret = [t \in Threads |-> "none"]
    /\ tconc = [t \in Threads |-> FALSE]
    /\ ioFaulted = FALSE
    /\ DispatchIdle
    /\ RegistryIdle
    /\ ChatIdle
    /\ RouterIdle
    /\ DbIdle
    /\ AuthIdle

PlannerNext ==
    \/ P_Start /\ UNCHANGED <<dispatchVars, registryVars, chatVars, routerVars, dbVars, authVars>>
    \/ P_ResolveSink /\ UNCHANGED <<dispatchVars, registryVars, chatVars, routerVars, dbVars, authVars>>
    \/ P_Construct /\ UNCHANGED <<dispatchVars, registryVars, chatVars, routerVars, dbVars, authVars>>
    \/ P_Connect /\ UNCHANGED <<dispatchVars, registryVars, chatVars, routerVars, dbVars, authVars>>
    \/ P_Branch /\ UNCHANGED <<dispatchVars, registryVars, chatVars, routerVars, dbVars, authVars>>
    \/ P_SchemaOnly /\ UNCHANGED <<dispatchVars, registryVars, chatVars, routerVars, dbVars, authVars>>
    \/ P_PlanSchema /\ UNCHANGED <<dispatchVars, registryVars, chatVars, routerVars, dbVars, authVars>>
    \/ P_Synthesize /\ UNCHANGED <<dispatchVars, registryVars, chatVars, routerVars, dbVars, authVars>>
    \/ P_Execute /\ UNCHANGED <<dispatchVars, registryVars, chatVars, routerVars, dbVars, authVars>>
    \/ P_Except /\ UNCHANGED <<dispatchVars, registryVars, chatVars, routerVars, dbVars, authVars>>
    \/ P_Finally /\ UNCHANGED <<dispatchVars, registryVars, chatVars, routerVars, dbVars, authVars>>

PlannerSpec == PlannerInit /\ [][PlannerNext]_vars

\* ------------------------------------------------------------------ C3
\* C3: when plan_and_execute_query returns, disconnect() has been attempted
\* on every adapter instance constructed for the request, whichever earlier
\* step failed.
C3_DisconnectAttempted ==
    (ppc = "returned" /\ constructions > 0) => inst.disconnects > 0

\* ------------------------------------------------------------------ C4
UnresolvedSink == ppc # "idle" /\ preq.sink_id \notin DOMAIN sinkFile

\* C4: a request whose sink_id has no descriptor in the Sink Registry returns
\* success=false, and during it no adapter is constructed and connect() is
\* not called.
C4_UnresolvedSinkNoAdapter ==
    UnresolvedSink =>
        /\ constructions = 0
        /\ ~inst.made
        /\ inst.connects = 0
        /\ ~adapter
        /\ ppc = "returned" => ~presult.success

\* The Sink Registry answered that it has no such sink and the request returned.
C4_Witness ==
    /\ UnresolvedSink
    /\ ppc = "returned"
    /\ llm_client_qpa
    /\ pexc = Exc("ConfigurationError",
                  <<"Sink configuration for ID", preq.sink_id, "not found or invalid">>)

\* ------------------------------------------------------------------ C5
\* C5: adapter.execute_query is never called with a candidate that does not
\* begin with SELECT or that contains a data-mutating keyword as a standalone
\* token: the planner has failed the request before.
C5_OnlyValidatedQueriesExecuted ==
    \A i \in 1..Len(execCalls) : IsReadOnlySelect(execCalls[i])

\* ----------------------------------------------------------- DispatchSpec
\* Every agent is up; the Chat Agent's startup has set chat_context or has
\* failed and left it None; sinks.json holds {}.
DispatchInit ==
    /\ chat_context \in BOOLEAN
    /\ dagent = "none"
    /\ drequest = NoRawRequest
    /\ dresponse = NoResponse
    /\ dinvoked = "none"
    /\ SinkIdle
    /\ AdapterIdle
    /\ PlannerIdle
    /\ RegistryIdle
    /\ ChatIdle
    /\ RouterIdle
    /\ DbIdle
    /\ AuthIdle

DispatchNext ==
    \/ D_a2a_registry /\ UNCHANGED <<adapterVars, plannerVars, registryVars, chatVars, routerVars, dbVars, authVars>>
    \/ D_webservice /\ UNCHANGED <<adapterVars, plannerVars, registryVars, chatVars, routerVars, dbVars, authVars>>
    \/ D_dbservice /\ UNCHANGED <<adapterVars, plannerVars, registryVars, chatVars, routerVars, dbVars, authVars>>
    \/ D_analytics /\ UNCHANGED <<adapterVars, plannerVars, registryVars, chatVars, routerVars, dbVars, authVars>>
    \/ D_chat /\ UNCHANGED <<adapterVars, plannerVars, registryVars, chatVars, routerVars, dbVars, authVars>>
    \/ D_query_planner /\ UNCHANGED <<adapterVars, plannerVars, registryVars, chatVars, routerVars, dbVars, authVars>>
    \/ D_bigquery_sink /\ UNCHANGED <<adapterVars, plannerVars, registryVars, chatVars, routerVars, dbVars, authVars>>
    \/ D_log_router /\ UNCHANGED <<adapterVars, plannerVars, registryVars, chatVars, routerVars, dbVars, authVars>>
    \/ D_log_ingest /\ UNCHANGED <<adapterVars, plannerVars, registryVars, chatVars, routerVars, dbVars, authVars>>
    \/ D_webcrawler /\ UNCHANGED <<adapterVars, plannerVars, registryVars, chatVars, routerVars, dbVars, authVars>>
    \/ D_sink_registry /\ UNCHANGED <<adapterVars, plannerVars, registryVars, chatVars, routerVars, dbVars, authVars>>
    \/ D_Delivered /\ UNCHANGED <<adapterVars, plannerVars, registryVars, chatVars, routerVars, dbVars, authVars>>

DispatchSpec == DispatchInit /\ [][DispatchNext]_vars

\* A JSON-RPC 2.0 request object: version "2.0" and an id member
WellFormed(raw) == raw.jsonrpc = "2.0" /\ raw.id # Absent

IsHelper(agent, method) ==
    HasAttr(agent, method) /\ GetAttr(agent, method).kind = "helper"

\* ------------------------------------------------------------------ C6
\* C6: a request naming an internal helper of the tools module (_save_sinks,
\* _load_sinks, init_database, get_adapter_factory_local, ...), which the
\* agent's card does not publish, is answered method-not-found, calls no
\* function and leaves the Sink Registry's catalogue as it was.
C6_HelpersNotDispatched ==
    [][ (WellFormed(drequest') /\ IsHelper(dagent', drequest'.method))
        => /\ dresponse'.kind = "envelope"
           /\ dresponse'.code = METHOD_NOT_FOUND
           /\ dinvoked' = "none"
           /\ sinkFile' = sinkFile ]_vars

\* ------------------------------------------------------------------ C7
\* C7: every agent answers a well-formed request whose method it cannot
\* resolve with an error envelope of code -32601 and no result.
C7_UnknownMethodNotFound ==
    (dagent # "none" /\ WellFormed(drequest) /\ ~HasAttr(dagent, drequest.method))
    => /\ dresponse.kind = "envelope"
       /\ dresponse.error /\ ~dresponse.result
       /\ dresponse.code = METHOD_NOT_FOUND

\* ------------------------------------------------------------------ C8
\* C8: every agent answers a request whose protocol version is not "2.0"
\* with an invalid-request error envelope carrying the request's id (null
\* only when the request had none) and calls no function.
C8_BadVersionInvalidRequest ==
    (dagent # "none" /\ drequest.jsonrpc \in Versions \ {"2.0"})
    => /\ dresponse.kind = "envelope"
       /\ dresponse.error /\ ~dresponse.result
       /\ dresponse.code = INVALID_REQUEST
       /\ dresponse.id = IdOrDefault(drequest)
       /\ dinvoked = "none"

\* ------------------------------------------------------------------ C9
\* C9: a well-formed request for a tool function that leaves out a required
\* parameter or carries an unexpected one is answered with an error envelope
\* of code -32602.
C9_BadParamsInvalidParams ==
    ( /\ dagent # "none" /\ WellFormed(drequest)
      /\ HasAttr(dagent, drequest.method)
      /\ GetAttr(dagent, drequest.method).kind = "capability"
      /\ ~Binds(GetAttr(dagent, drequest.method), drequest.params.names) )
    => /\ dresponse.kind = "envelope"
       /\ dresponse.error /\ ~dresponse.result
       /\ dresponse.code = INVALID_PARAMS

\* ------------------------------------------------------------------ C10
\* C10: every request that is a JSON object with jsonrpc, method, params and
\* id members is answered with a JSON-RPC envelope: the request's id and
\* exactly one of result and error; never a bare HTTP error.
C10_AlwaysEnvelope ==
    (dagent # "none" /\ drequest.jsonrpc # Absent /\ drequest.id # Absent)
    => /\ dresponse.kind = "envelope"
       /\ dresponse.id = drequest.id
       /\ dresponse.result # dresponse.error

\* ----------------------------------------------------------------- C11
\* C11: every response envelope a dispatcher produces carries exactly one
\* of result and error, never both and never neither, together with the id
\* of the request it answers (null only when the request had no id).
C11_OneOfResultErrorWithId ==
    (dagent # "none" /\ dresponse.kind = "envelope")
    => /\ dresponse.result # dresponse.error
       /\ dresponse.id = IdOrDefault(drequest)

\* ----------------------------------------------------------------- C12
\* C12: every QueryResult plan_and_execute_query returns, the adapter's own
\* result passed on from execute_query included, is consistent: a failure
\* carries an error message and no rows or columns, a success carries no
\* error message.
AbsentOrEmpty(opt) == opt = None \/ opt = Some(<< >>)

C12_ResultConsistent ==
    ppc = "returned"
    => /\ ~presult.success
          => /\ presult.error_message # None
             /\ AbsentOrEmpty(presult.rows)
             /\ AbsentOrEmpty(presult.columns)
       /\ presult.success => presult.error_message = None

\* An execution the adapter refused, returned to the caller as a failure.
C12_Witness ==
    /\ ppc = "returned"
    /\ execCalls # << >>
    /\ ~presult.success
    /\ presult.error_message # None

\* ----------------------------------------------------------------- C13
\* C13: no error escapes plan_and_execute_query: whenever a DataAccessError
\* of any subtype was raised on the way, the call still returns, and what
\* it returns is a failed QueryResult carrying that error's message.
C13_ErrorsBecomeFailures ==
    (ppc = "returned" /\ pexc.type # "none")
    => /\ pexc.type \in DataAccessErrors
       /\ ~presult.success
       /\ presult.error_message = Some(pexc.msg)

\* A connection failure of the adapter, returned as a failure.
C13_Witness ==
    /\ ppc = "returned"
    /\ pexc.type = "ConnectionError"
    /\ constructions > 0
    /\ ~presult.success

\* ----------------------------------------------------------------- C14
\* C14: every query handed to execute_query that is not an aggregate count
\* is row-limited: it carries a LIMIT clause, its own or the appended
\* LIMIT 20.
HasLimitClause(q) == \E i \in 1..Len(q) : Upper(q)[i] = "LIMIT"

IsAggregateCount(q) == \E i \in 1..Len(q) : Upper(q)[i] = "COUNT("

C14_NonCountRowLimited ==
    \A i \in 1..Len(execCalls) :
        ~IsAggregateCount(execCalls[i]) => HasLimitClause(execCalls[i])

\* ------------------------------------------------------- registry spec
RegistryInit ==
    /\ \E prior \in PriorDbs : regTable = prior[1] /\ regDb = prior[2]
    /\ regTxn = {}
    /\ ipc = "idle"
    /\ regIdx = 1
    /\ regInit = InitOutcome("never", 0)
    /\ regOut = NoLookup
    /\ SinkIdle
    /\ AdapterIdle
    /\ PlannerIdle
    /\ DispatchIdle
    /\ ChatIdle
    /\ RouterIdle
    /\ DbIdle
    /\ AuthIdle

RegistryNext ==
    \/ R_InitConnect /\ UNCHANGED <<sinkVars, adapterVars, plannerVars, dispatchVars, chatVars, routerVars, dbVars, authVars>>
    \/ R_InitCreateTable /\ UNCHANGED <<sinkVars, adapterVars, plannerVars, dispatchVars, chatVars, routerVars, dbVars, authVars>>
    \/ R_InitUpsert /\ UNCHANGED <<sinkVars, adapterVars, plannerVars, dispatchVars, chatVars, routerVars, dbVars, authVars>>
    \/ R_InitCommit /\ UNCHANGED <<sinkVars, adapterVars, plannerVars, dispatchVars, chatVars, routerVars, dbVars, authVars>>
    \/ R_GetAgent /\ UNCHANGED <<sinkVars, adapterVars, plannerVars, dispatchVars, chatVars, routerVars, dbVars, authVars>>
    \/ R_ListAgents /\ UNCHANGED <<sinkVars, adapterVars, plannerVars, dispatchVars, chatVars, routerVars, dbVars, authVars>>
    \/ R_GetMethodDetails /\ UNCHANGED <<sinkVars, adapterVars, plannerVars, dispatchVars, chatVars, routerVars, dbVars, authVars>>

RegistrySpec == RegistryInit /\ [][RegistryNext]_vars

\* ----------------------------------------------------------------- C15
\* C15: once the seed descriptors are upserted, get_agent by the name of
\* any of them returns a descriptor equal to the one upserted, the order
\* and the content of its list of methods included.
C15_RoundTrip ==
    ( /\ regInit.state = "ok"
      /\ regOut.op = "get_agent"
      /\ regOut.name \in SeedNames
      /\ ~regOut.fault )
    => regOut.value = SeedCard(regOut.name)

\* The round trip of a descriptor with more than one method.
C15_Witness ==
    /\ regInit.state = "ok"
    /\ regOut.op = "get_agent"
    /\ regOut.name = "auth_agent"
    /\ regOut.value = AuthAgentCard
    /\ Len(DictGet(regOut.value, "methods")[1].v) = 2

\* ----------------------------------------------------------------- C16
\* C16: once the seed descriptors are upserted, the table holds exactly one
\* row under each of their names, that row is the new descriptor with
\* nothing of an older one, and get_agent returns the new list of methods.
C16_UpsertReplaces ==
    regInit.state = "ok"
    => /\ \A name \in SeedNames :
             {r \in regDb : r.name = name} = {Row(name, Dumps(SeedCard(name)))}
       /\ ( /\ regOut.op = "get_agent"
            /\ regOut.name \in SeedNames
            /\ ~regOut.fault )
          => DictGet(regOut.value, "methods") = DictGet(SeedCard(regOut.name), "methods")

\* A database of an earlier release, whose auth_agent row was replaced.
C16_Witness ==
    /\ regInit.state = "ok"
    /\ Row("legacy_agent", Dumps(LegacyAgentCard)) \in regDb
    /\ regOut.op = "get_agent"
    /\ regOut.name = "auth_agent"
    /\ ~regOut.fault

\* ----------------------------------------------------------------- C17
\* C17: the committed rows change only when init_database succeeds, and
\* then to all the seed descriptors at once beside every row stored under
\* another name; an init_database that fails leaves the rows as they were.
C17_NoPartialWrite ==
    [][ regDb' # regDb
        => /\ regInit'.state = "ok"
           /\ \A name \in SeedNames : Row(name, Dumps(SeedCard(name))) \in regDb'
           /\ \A r \in regDb : r.name \notin SeedNames => r \in regDb' ]_vars

\* A failure after the first seed descriptor was written, over a database
\* of an earlier release.
C17_Witness ==
    /\ regInit.state = "failed"
    /\ regInit.upserted >= 1
    /\ Row("auth_agent", Dumps(OldAuthAgentCard)) \in regDb

\* ----------------------------------------------------------------- C18
\* C18: a storage error under a registry operation reaches the caller as an
\* error value: a lookup that met one returns a value carrying an error,
\* never the empty value of not-found, and an init_database that met one
\* does not return what a successful one returns.
IsErrorValue(x) ==
    \/ x.t = "dict" /\ DictHas(x, "error")
    \/ x.t = "list" /\ x.v # << >> /\ x.v[1].t = "dict" /\ DictHas(x.v[1], "error")

C18_StorageErrorsSurfaced ==
    /\ regOut.fault => IsErrorValue(regOut.value)
    /\ regInit.state = "failed" => regInit.returned # InitOutcome("ok", 0).returned

\* ----------------------------------------------------------------- C19
\* C19: whatever state an adapter is in (never connected, connected, connect
\* failed, already disconnected), disconnect raises nothing and leaves it
\* not connected, and a second disconnect leaves it as the first did.
SameConnectionState(a, b) ==
    /\ a.kind = b.kind
    /\ a.conn = b.conn
    /\ a.dataset = b.dataset

RejectsUnsubmitted(r) == r.exc = "QueryExecutionError" /\ ~r.submitted

C20_SameRejection ==
    (aout.op = "execute_query" /\ inst.conn)
    => \A env \in BackendEnv :
          LET qo == QueryObject(aout.query, None) IN
          RejectsUnsubmitted(SQLiteExecuteQuery(inst, qo, env))
          <=> RejectsUnsubmitted(BigQueryExecuteQuery(inst, qo, env))

\* ----------------------------------------------------------------- C21
\* C21: on a connected adapter, get_schema_information with a name that
\* cannot be resolved (a table the backend does not have, or an unqualified
\* name on an adapter without default dataset) fails with SchemaError and
\* returns no SchemaInfo.
CannotResolve(a, parts) ==
    \/ parts[Len(parts)] \notin {"candidates", "log_table"}
    \/ a.kind = "bigquery" /\ ~ResolveEntityName(a, parts)[1]

C21_UnresolvedNameSchemaError ==
    ( /\ aout.op = "get_schema_information"
      /\ inst.conn
      /\ aout.entity # None
      /\ CannotResolve(inst, aout.entity[1]) )
    => aout.exc = "SchemaError"

\* ----------------------------------------------------------------- C22
\* C22: the schema fetch of the PlanQuery step is best-effort: whatever
\* get_schema_information does there, fail or return partial information,
\* the request goes on to query synthesis.
C22_SchemaFetchBestEffort ==
    [][ ppc = "PlanQuery" => ppc' = "Synthesize" ]_vars

\* ----------------------------------------------------------------- C23
\* C23: a schema inquiry for which the adapter returned schema information
\* (no error message, or at least one table) returns a QueryResult with
\* success=true whose rows are, table after table, one row per column with
\* the keys table_name, column_name, column_type, is_primary_key,
\* is_required, table_description, and whose row_count is the number of
\* rows; when the adapter returned an error message and no table the result
\* is success=false with that message; on neither path is a query
\* synthesized or executed.
SchemaInquiryAnswered ==
    /\ ppc = "returned"
    /\ llm_client_qpa
    /\ IsGetSchemaIntent(preq)
    /\ pexc = NoExc

TablesOf(info) == IF info.tables = None THEN << >> ELSE info.tables[1]

RECURSIVE ColumnsBefore(_, _)
\* The number of columns of the tables before the t-th.
ColumnsBefore(tables, t) ==
    IF t <= 1 THEN 0
    ELSE ColumnsBefore(tables, t - 1) + Len(tables[t - 1].columns)

OneRowPerColumn(rows, tables) ==
    /\ Len(rows) = ColumnsBefore(tables, Len(tables) + 1)
    /\ \A t \in 1..Len(tables) : \A c \in 1..Len(tables[t].columns) :
          rows[ColumnsBefore(tables, t) + c] =
              [table_name |-> tables[t].table_name,
               column_name |-> tables[t].columns[c].name,
               column_type |-> tables[t].columns[c].type,
               is_primary_key |-> tables[t].columns[c].pk,
               is_required |-> tables[t].columns[c].required,
               table_description |-> tables[t].description]

C23_SchemaInquiryRows ==
    /\ IsGetSchemaIntent(preq) => (execCalls = << >> /\ pquery = NoQuery)
    /\ SchemaInquiryAnswered
       => IF SchemaFailed(pschema)
          THEN ~presult.success /\ presult.error_message = pschema.error_message
          ELSE /\ presult.success
               /\ presult.columns = Some(SchemaColumns)
               /\ presult.rows # None
               /\ OneRowPerColumn(presult.rows[1], TablesOf(pschema))
               /\ presult.row_count = Some(Len(presult.rows[1]))

\* The schema of a backend with two tables, three columns in all.
C23_Witness ==
    /\ SchemaInquiryAnswered
    /\ presult.success
    /\ Len(TablesOf(pschema)) = 2
    /\ presult.row_count = Some(3)

\* C23 as stated: every schema inquiry the adapter answered returns
\* success=true with one row per column.
C23_SchemaInquirySucceeds ==
    SchemaInquiryAnswered
    => /\ presult.success
       /\ presult.rows # None
       /\ OneRowPerColumn(presult.rows[1], TablesOf(pschema))

\* ----------------------------------------------------------------- C24
\* C24: the final step never changes the outcome of a planning request:
\* whether adapter.disconnect() returns or raises there, the request
\* returns exactly the QueryResult the earlier steps produced.
C24_DisconnectNeverMasks ==
    [][ ppc = "finally" => (ppc' = "returned" /\ presult' = presult) ]_vars

\* A successful query whose adapter failed to disconnect.
C24_Witness ==
    /\ ppc = "returned"
    /\ aout.op = "disconnect"
    /\ aout.exc = "Exception"
    /\ presult.success
    /\ execCalls # << >>

\* ----------------------------------------------------------- chat spec
ChatInit ==
    /\ ChatIdle
    /\ RouterIdle
    /\ DbIdle
    /\ AuthIdle
    /\ SinkIdle
    /\ AdapterIdle
    /\ PlannerIdle
    /\ DispatchIdle
    /\ RegistryIdle

ChatNext ==
    \E c \in Coroutines :
        \/ Chat_ProcessMessage(c)
              /\ UNCHANGED <<sinkVars, adapterVars, plannerVars, dispatchVars, registryVars, routerVars, dbVars, authVars>>
        \/ Chat_DataQueryAnswered(c)
              /\ UNCHANGED <<sinkVars, adapterVars, plannerVars, dispatchVars, registryVars, routerVars, dbVars, authVars>>

ChatSpec == ChatInit /\ [][ChatNext]_vars

\* ----------------------------------------------------------------- C25
\* C25: no turn is lost: the history stored under a session holds the user
\* entry and the assistant entry of every process_message call on that
\* session that has returned (fewer than five calls are made, so all of
\* them lie within the last ten entries), however the calls overlapped.
SessionHistory(sid) == IF sessions[sid] = NoRef THEN << >> ELSE chatHeap[sessions[sid]]

C25_NoTurnLost ==
    \A d \in chatDone :
        /\ InSeq(Entry("user", d.turn), SessionHistory(d.session_id))
        /\ InSeq(Entry("assistant", d.turn), SessionHistory(d.session_id))

\* ----------------------------------------------------------------- C26
\* C26: a request against a sink id that the Sink Registry has no descriptor
\* for returns success=false with an error_message that names that sink id,
\* whether or not the planner's LLM client is available and whatever the
\* registry call's transport did.
C26_MissingSinkNamed ==
    (UnresolvedSink /\ ppc = "returned") =>
        /\ ~presult.success
        /\ presult.error_message # None
        /\ InSeq(preq.sink_id, presult.error_message[1])

\* ----------------------------------------------------------------- C27
\* C27: when the LLM answers a SELECT statement followed on a new line by a
\* JSON object of parameters, the synthesis yields the QueryObject whose
\* query_string is that statement and whose parameters are the JSON mapping.
StatementThenParams == Q_SelectLimit \o <<"\n", "J_P">>

C27_StatementAndParamsSeparated ==
    llm_output_text = Some(StatementThenParams) =>
        /\ ppc = "ExecuteQuery" \/ execCalls # << >>
        /\ pquery = QueryObject(Q_SelectLimit, Some("P"))

\* ----------------------------------------------------------------- C28
\* C28: code -32601 is kept for methods that do not resolve: a request whose
\* method resolved to a function that the dispatcher then called is never
\* answered with -32601, whatever that function did.
C28_NotFoundOnlyForUnknown ==
    (dagent # "none" /\ dinvoked # "none")
    => ~(dresponse.kind = "envelope" /\ dresponse.error /\ dresponse.code = METHOD_NOT_FOUND)

\* ----------------------------------------------------------- router spec
RouterInit ==
    /\ RouterIdle
    /\ DbIdle
    /\ AuthIdle
    /\ ChatIdle
    /\ SinkIdle
    /\ AdapterIdle
    /\ PlannerIdle
    /\ DispatchIdle
    /\ RegistryIdle

RouterNext ==
    \/ LR_Publish /\ UNCHANGED <<sinkVars, adapterVars, plannerVars, dispatchVars, registryVars, chatVars, dbVars, authVars>>
    \/ LR_Pull /\ UNCHANGED <<sinkVars, adapterVars, plannerVars, dispatchVars, registryVars, chatVars, dbVars, authVars>>
    \/ LR_Acknowledge /\ UNCHANGED <<sinkVars, adapterVars, plannerVars, dispatchVars, registryVars, chatVars, dbVars, authVars>>
    \/ LR_Insert /\ UNCHANGED <<sinkVars, adapterVars, plannerVars, dispatchVars, registryVars, chatVars, dbVars, authVars>>

RouterSpec == RouterInit /\ [][RouterNext]_vars

\* ----------------------------------------------------------------- C29
\* C29: no message is acknowledged whose insert did not succeed: whenever
\* manual_pull_insert has returned or raised, every message acknowledged to
\* Pub/Sub has its entry in the BigQuery table.
C29_AckedOnlyInserted ==
    rpc_pc = "returned" => acknowledged \subseteq bqTable

\* ------------------------------------------------------ fair planner spec
\* The steps of a request that the code bounds or that run locally.  The
\* call to the Sink Registry carries timeout=10.0 (line 97), so it returns
\* or raises; the adapter's calls are bounded by the backend connection.
\* The await of llm_client_qpa.ainvoke (line 199) carries no timeout and is
\* wrapped in none, so nothing makes P_Synthesize happen.
PlannerProgress ==
    /\ \/ P_ResolveSink
       \/ P_Construct
       \/ P_Connect
       \/ P_Branch
       \/ P_SchemaOnly
       \/ P_PlanSchema
       \/ P_Execute
       \/ P_Except
       \/ P_Finally
    /\ UNCHANGED <<dispatchVars, registryVars, chatVars, routerVars, dbVars, authVars>>

\* One request is followed from its arrival to its end.
P_StartFirst ==
    /\ ppc = "idle"
    /\ P_Start

PlannerFairNext ==
    \/ P_StartFirst /\ UNCHANGED <<dispatchVars, registryVars, chatVars, routerVars, dbVars, authVars>>
    \/ P_ResolveSink /\ UNCHANGED <<dispatchVars, registryVars, chatVars, routerVars, dbVars, authVars>>
    \/ P_Construct /\ UNCHANGED <<dispatchVars, registryVars, chatVars, routerVars, dbVars, authVars>>
    \/ P_Connect /\ UNCHANGED <<dispatchVars, registryVars, chatVars, routerVars, dbVars, authVars>>
    \/ P_Branch /\ UNCHANGED <<dispatchVars, registryVars, chatVars, routerVars, dbVars, authVars>>
    \/ P_SchemaOnly /\ UNCHANGED <<dispatchVars, registryVars, chatVars, routerVars, dbVars, authVars>>
    \/ P_PlanSchema /\ UNCHANGED <<dispatchVars, registryVars, chatVars, routerVars, dbVars, authVars>>
    \/ P_Synthesize /\ UNCHANGED <<dispatchVars, registryVars, chatVars, routerVars, dbVars, authVars>>
    \/ P_Execute /\ UNCHANGED <<dispatchVars, registryVars, chatVars, routerVars, dbVars, authVars>>
    \/ P_Except /\ UNCHANGED <<dispatchVars, registryVars, chatVars, routerVars, dbVars, authVars>>
    \/ P_Finally /\ UNCHANGED <<dispatchVars, registryVars, chatVars, routerVars, dbVars, authVars>>

PlannerFairSpec == PlannerInit /\ [][PlannerFairNext]_vars /\ WF_vars(PlannerProgress)

\* ----------------------------------------------------------------- C30
\* C30: every planning request that has started eventually returns its
\* result (Done or Failed): it never waits forever on a downstream call.
C30_RequestTerminates ==
    (ppc \notin {"idle", "returned"}) ~> (ppc = "returned")

\* --------------------------------------------------------------- db spec
DbInit ==
    /\ DbIdle
    /\ AuthIdle
    /\ RouterIdle
    /\ ChatIdle
    /\ SinkIdle
    /\ AdapterIdle
    /\ PlannerIdle
    /\ DispatchIdle
    /\ RegistryIdle

DbNext ==
    \/ DB_ExecuteQuery /\ UNCHANGED <<sinkVars, adapterVars, plannerVars, dispatchVars, registryVars, chatVars, routerVars, authVars>>
    \/ DB_CreateRecord /\ UNCHANGED <<sinkVars, adapterVars, plannerVars, dispatchVars, registryVars, chatVars, routerVars, authVars>>

DbSpec == DbInit /\ [][DbNext]_vars

\* ----------------------------------------------------------------- C31
\* C31: execute_query is read-only: a query that does not start with SELECT
\* or holds a mutating verb as a white-space delimited word is answered with
\* an error without the database being opened, and no execute_query call
\* changes the rows or the schema of the candidates database.
RejectedByCheck(q) ==
    HasDisallowedKeyword(Strip(q)) \/ ~StartsWithSELECT(Upper(Strip(q)))

C31_ExecuteQueryReadOnly ==
    [][ dbOut'.op = "execute_query" =>
           /\ RejectedByCheck(dbOut'.query) => (dbOut'.kind = "error" /\ ~dbOut'.opened)
           /\ dbTable' = dbTable
           /\ dbRows' = dbRows ]_vars

\* ----------------------------------------------------------------- C32
\* C32: the Sink Registry's operations are keyed: when a register_sink or
\* delete_sink call that no other call overlapped leaves _save_sinks, a
\* 'registered' answer means the catalogue holds exactly the registered
\* descriptor under its id, a 'deleted' answer means the id is gone, and the
\* entry of every other id is what it was before.
SameEntry(s, before, after) ==
    /\ (s \in DOMAIN before) <=> (s \in DOMAIN after)
    /\ s \in DOMAIN before => after[s] = before[s]

C32_KeyedCrud ==
    [][ \A t \in Threads :
          (tpc[t] = "saving" /\ tpc'[t] = "done" /\ ~tconc[t]) =>
              /\ tret'[t] = "registered" =>
                    /\ tcall[t].sink_id \in DOMAIN sinkFile'
                    /\ sinkFile'[tcall[t].sink_id] = tcall[t].desc
              /\ tret'[t] = "deleted" => tcall[t].sink_id \notin DOMAIN sinkFile'
              /\ \A o \in SinkIds \ {tcall[t].sink_id} : SameEntry(o, sinkFile, sinkFile') ]_vars

\* ----------------------------------------------------------------- C33
\* C33: a register_sink request that carries the parameters the card
\* publishes as required and none of those it publishes as optional is
\* accepted: register_sink is called and the answer is a result.
C33_PublishedRequiredSuffice ==
    ( /\ dagent = "sink_registry_agent"
      /\ drequest.method = "register_sink"
      /\ drequest.params.names = RegisterSinkPublishedRequired )
    => /\ dresponse.kind = "envelope"
       /\ dresponse.result
       /\ dinvoked = "register_sink"


\* C34: once a plan_and_execute_query request has returned, by whatever path,
\* no adapter instance constructed for it still holds an open backend
\* connection or client.
C34_NoConnectionAfterReturn ==
    (ppc = "returned" /\ inst.made) => ~inst.conn

\* ------------------------------------------------------------------ C35
\* The place of each position of plan_and_execute_query in the order
\* ResolveSink, ConnectAdapter, (SchemaOnly | PlanQuery), ExecuteQuery,
\* Disconnect.
StepRank(pc) ==
    CASE pc = "idle" -> 0
      [] pc = "ResolveSink" -> 1
      [] pc = "ConnectAdapter" -> 2
      [] pc = "connect" -> 3
      [] pc = "Branch" -> 4
      [] pc \in {"SchemaOnly", "PlanQuery"} -> 5
      [] pc = "Synthesize" -> 6
      [] pc = "ExecuteQuery" -> 7
      [] pc = "except" -> 8
      [] pc = "finally" -> 9
      [] OTHER -> 10

\* The adapter has no active connection and answers both calls with
\* ConnectionError, whatever the backend would do, submitting nothing.
RefusesUnconnected(a) ==
    /\ ~a.conn
    /\ \A q \in TestQueries, env \in BackendEnv :
          LET r == AdapterExecuteQuery(a, QueryObject(q, None), env) IN
          r.exc = "ConnectionError" /\ ~r.submitted
    /\ \A e \in {None} \cup {Some(x) : x \in Entities}, env \in SchemaEnv :
          AdapterGetSchema(a, e, env) = SchemaRet("ConnectionError", NoSchema)

\* C35: within a planning request the steps occur only in the order
\* ResolveSink, ConnectAdapter, (SchemaOnly or PlanQuery), ExecuteQuery,
\* Disconnect; get_schema_information and execute_query are called only on an
\* adapter whose connect() succeeded and that was not yet disconnected; and an
\* adapter without an active connection answers either call with
\* ConnectionError, submitting nothing to the backend.
C35_StepsInOrder ==
    [][ /\ (ppc \notin {"idle", "returned"} /\ ppc' # ppc) => StepRank(ppc') > StepRank(ppc)
        /\ (ppc \in {"SchemaOnly", "PlanQuery", "ExecuteQuery"} /\ ppc' # ppc) =>
              (adapter /\ inst.conn /\ inst.connects = 1 /\ inst.disconnects = 0)
        /\ (ppc = "finally" /\ adapter) => inst'.disconnects = 1
        /\ (ppc = "connect" /\ ppc' = "except") => RefusesUnconnected(inst')
        /\ (ppc = "finally" /\ adapter /\ ~inst'.conn) => RefusesUnconnected(inst')
      ]_vars

\* A request that ran a query on its connected adapter and is about to
\* disconnect it.
C35_Witness ==
    /\ ppc = "finally"
    /\ execCalls # << >>
    /\ backendLog # << >>
    /\ adapter /\ inst.conn /\ inst.disconnects = 0

\* ------------------------------------------------------------------ C36
\* The request names a sink of the catalogue whose configuration connects.
ResolvableConnectingSink ==
    /\ preq.sink_id \in DOMAIN sinkFile
    /\ sinkFile[preq.sink_id].connection_ref \in {"path_ok", "sqlite_ok", "bq_ok"}

\* C36: a schema inquiry does not depend on the query-synthesis collaborator:
\* for a resolvable sink whose adapter connects it returns the schema rows with
\* success=true even when the planner's LLM client is not initialised.  A
\* request that returned without success has at least reached the adapter.
C36_SchemaInquiryWithoutLlm ==
    ( /\ ppc = "returned"
      /\ ~llm_client_qpa
      /\ IsGetSchemaIntent(preq)
      /\ ResolvableConnectingSink )
    => (presult.success \/ constructions > 0)

\* ------------------------------------------------------------------ C37
\* C37: when persisting the catalogue fails during register_sink or
\* delete_sink, the call returns an error value and the catalogue every later
\* get_sink_details and list_sinks reads is exactly the one persisted before
\* the call: no registered sink is lost, no partial update is visible.
C37_FailedSaveKeepsCatalogue ==
    [][ \A t \in Threads :
          (tpc[t] = "saving" /\ tpc'[t] = "done" /\ tret'[t] \notin {"registered", "deleted"}) =>
              /\ tret'[t] = "error_save"
              /\ sinkFile' = sinkFile ]_vars

\* ------------------------------------------------------------------ C38
\* The prompt contains 'get schema' and no 'schema for'.
NamesNoEntity(words) ==
    HasPhrase(words, <<"get", "schema">>) /\ ~HasPhrase(words, <<"schema", "for">>)

\* C38: for a prompt that contains 'get schema' and names no entity, the chat
\* agent's preliminary analysis is operation=get_schema with entity_name None,
\* and the planner asks the adapter for the schema of the whole sink.
C38_GetSchemaWholeSink ==
    ( /\ ppc \in {"SchemaOnly", "except", "finally", "returned"}
      /\ NamesNoEntity(preq.user_intent)
      /\ preq.llm_analysis = Some(PreliminaryIntentAnalysis(preq.user_intent)) )
    => /\ preq.llm_analysis[1].operation = "get_schema"
       /\ preq.llm_analysis[1].entity_name = None
       /\ adapter => pentity = None

\* ----------------------------------------------------------------- C39
\* One client talking to the chat agent, each call after the answer to the
\* one before.
ChatSeqNext ==
    \/ ChatSeq_ProcessMessage("c1")
          /\ UNCHANGED <<sinkVars, adapterVars, plannerVars, dispatchVars, registryVars, routerVars, dbVars, authVars>>
    \/ Chat_DataQueryAnswered("c1")
          /\ UNCHANGED <<sinkVars, adapterVars, plannerVars, dispatchVars, registryVars, routerVars, dbVars, authVars>>

ChatSeqSpec == ChatInit /\ [][ChatSeqNext]_vars

RoleAt(i) == IF i % 2 = 1 THEN "user" ELSE "assistant"

\* C39: whatever sequence of process_message calls that do not overlap was
\* served, the history stored under each session has at most ten entries, an
\* even number of them, alternating user and assistant and starting with user.
C39_HistoryWellFormed ==
    \A sid \in SessionIds :
        LET h == SessionHistory(sid) IN
        /\ Len(h) <= 10
        /\ Len(h) % 2 = 0
        /\ \A i \in 1..Len(h) : h[i].role = RoleAt(i)

\* A session that served six calls, the first of which left the window.
C39_Witness ==
    \E sid \in SessionIds :
        /\ Cardinality({d \in chatDone : d.session_id = sid}) = 6
        /\ Len(SessionHistory(sid)) = 10
        /\ SessionHistory(sid)[1] = Entry("user", 2)

\* ----------------------------------------------------------------- C40
AuthInit ==
    /\ AuthIdle
    /\ DbIdle
    /\ RouterIdle
    /\ ChatIdle
    /\ SinkIdle
    /\ AdapterIdle
    /\ PlannerIdle
    /\ DispatchIdle
    /\ RegistryIdle

AuthNext ==
    \/ Auth_Login /\ UNCHANGED <<sinkVars, adapterVars, plannerVars, dispatchVars, registryVars, chatVars, routerVars, dbVars>>
    \/ Auth_VerifyToken /\ UNCHANGED <<sinkVars, adapterVars, plannerVars, dispatchVars, registryVars, chatVars, routerVars, dbVars>>

AuthSpec == AuthInit /\ [][AuthNext]_vars

\* The downstream calls of the last login went through: the registry answered
\* with a card that has a url and the service answered true.
DownstreamVouches(call) ==
    /\ call.reg = "card"
    /\ call.auth = "answers"
    /\ validate_credentials(call.username, call.password)

\* C40: the set of issued tokens only grows and holds only tokens returned by
\* a login whose registry lookup found the service and whose credentials the
\* service answered true for; a login one of whose downstream calls failed,
\* answered with an error or reported invalid credentials returns
\* success=false and adds no token; verify_token(t) is true exactly for the
\* tokens of the set.
C40_TokensOnlyFromValidLogins ==
    [][ /\ valid_tokens \subseteq valid_tokens'
        /\ valid_tokens' \subseteq vouched'
        /\ authOut'.op = "login" =>
              /\ ~DownstreamVouches(authOut') =>
                    (~authOut'.result /\ valid_tokens' = valid_tokens)
              /\ authOut'.result =>
                    /\ authOut'.token \notin valid_tokens
                    /\ valid_tokens' = valid_tokens \cup {authOut'.token}
        /\ authOut'.op = "verify_token" =>
              /\ authOut'.result <=> (authOut'.token \in valid_tokens)
              /\ valid_tokens' = valid_tokens ]_vars

\* A login refused after a token was issued, and that token still verifiable.
C40_Witness ==
    /\ authOut.op = "login"
    /\ ~authOut.result
    /\ authOut.reg = "card" /\ authOut.auth = "answers"
    /\ valid_tokens = {1}
    /\ vouched = {1}
====
